---- MODULE Spec2Model ----
(***************************************************************************)
(* Signature Injection Engine: coordinate transform engine, contain-fit    *)
(* geometry and the editor -> sign-pdf -> burn-in placement pipeline.      *)
(*                                                                         *)
(* JavaScript numbers are modelled as exact extended rationals: a sign, a  *)
(* numerator and a denominator, with the IEEE-754 special values kept      *)
(* (n/0 is an infinity, 0/0 is NaN, zero carries a sign).  Division by     *)
(* zero therefore never throws, exactly as in the source; only binary      *)
(* rounding is abstracted away.                                            *)
(***************************************************************************)
EXTENDS Integers, Sequences, FiniteSets, TLC

VARIABLES
    tArgs,      \* transform calls: the rectangle, container and page passed in
    tTrace,     \* transform calls made so far, in order
    tFwd,       \* outcome of the transformFrontendToPDF call
    tRev,       \* outcome of the transformPDFToFrontend call
    fArgs,      \* fit calls: the image dimensions and the placement box
    fFit,       \* outcome of the calculateFitDimensions call
    fDraw,      \* the page.drawImage call signPDF made for the box
    editorPdfPageSize,      \* PDFEditor pdfPageSize: size of the loaded page, Null before onPDFLoaded
    editorContainerSize,    \* PDFEditor containerSize: measured size of the viewer container
    scale,              \* PDFRenderer: scale the page is displayed with
    offset,             \* PDFRenderer: translation of the page wrapper
    fields,             \* PDFEditor: the placed fields, in page space
    selectedField,      \* PDFEditor: id of the selected field, 0 for none
    showSignaturePad,   \* PDFEditor: the signature pad is open
    signing,            \* PDFEditor: a sign-pdf request is being made
    request,            \* the sign-pdf request body in flight, Null for none
    response,           \* the answer of the sign-pdf route, NoResponse for none
    burned,             \* server: what signPDF drew for the last request
    sArgs,      \* signer calls: the document buffer and the signature data passed in
    sFirst,     \* outcome of the signPDF call
    sSecond,    \* outcome of a second signPDF call with the same arguments
    sEffects,   \* calls the first signPDF call made on the document, in order
    sMulti,     \* outcome of the signPDFMultiple call
    clock,              \* the system clock (new Date()), in milliseconds
    envDebugSignatureBox,   \* process.env.DEBUG_SIGNATURE_BOX
    db,                 \* server: app.locals.db is set
    listening,          \* server: app.listen was called
    auditLogs,          \* the audit_logs collection, in insertion order
    lastSign,           \* the last POST /api/sign-pdf served and its answer
    lastVerify,         \* the last POST /api/verify-pdf served and its answer
    verifying,          \* verifyIntegrity calls between their query and their update
    verified,           \* verifyIntegrity calls that have returned, in order
    isDragging,         \* DraggableField, per field id: the field is being dragged
    isResizing,         \* DraggableField, per field id: the field is being resized
    dragStart,          \* DraggableField, per field id: what handleMouseDown recorded
    gestures,           \* mouse-down events on fields so far
    vArg,       \* validity calls: the rectangle passed to isValidNormalizedCoordinate
    vResult     \* outcome of the isValidNormalizedCoordinate call

tVars == <<tArgs, tTrace, tFwd, tRev>>
fVars == <<fArgs, fFit, fDraw>>
eVars == <<editorPdfPageSize, editorContainerSize, scale, offset, fields, selectedField,
           showSignaturePad, signing, request, response, burned>>
sVars == <<sArgs, sFirst, sSecond, sEffects, sMulti>>
aVars == <<clock, envDebugSignatureBox>>
dVars == <<db, listening, auditLogs, lastSign, lastVerify>>
vVars == <<vArg, vResult>>
cVars == <<verifying, verified>>
pVars == <<isDragging, isResizing, dragStart, gestures>>
vars == <<tVars, fVars, eVars, sVars, aVars, dVars, vVars, cVars, pVars>>

(***************************************************************************)
(* Bounds of the model                                                     *)
(***************************************************************************)
\* container and page dimensions range over 1..MaxDim
MaxDim == 3
\* rectangle positions range over -1..MaxPos
MaxPos == 2
\* rectangle sizes range over 1..MaxSize
MaxSize == 2
\* image and box dimensions of the fit calculator range over -1..MaxFit
MaxFit == 4
\* page and container sides of the editor range over 200, 300 .. 100 * MaxUnits
MaxUnits == 3
\* drop positions on the canvas range over 0, 60 .. 60 * MaxDrop
MaxDrop == 1
\* number of fields placed in the editor
MaxFields == 1
\* documents have 0..MaxPages pages; page indices range over -1..MaxPages
MaxPages == 2
\* signPDFMultiple is called with 0..MaxPlacements placements
MaxPlacements == 2
\* the clock ranges over 0..MaxClock milliseconds
MaxClock == 1
\* the audit store holds up to MaxAudit entries
MaxAudit == 2
\* the editor's requests are served while fewer than MaxSigned entries are stored
MaxSigned == 1
\* the audit store records up to MaxVerifications verifications
MaxVerifications == 1
\* components of a normalized rectangle range over -1/2, 0 .. MaxHalves / 2
MaxHalves == 3
\* up to MaxCalls calls of the audit schema are followed
MaxCalls == 3
\* up to MaxGestures presses of the mouse button on a field are followed
MaxGestures == 1

(***************************************************************************)
(* Numbers                                                                 *)
(***************************************************************************)
Abs(k) == IF k < 0 THEN 0 - k ELSE k

RECURSIVE Gcd(_, _)
Gcd(a, b) == IF b = 0 THEN a ELSE Gcd(b, a % b)

\* greatest common divisor used for cancelling; 1 when both are zero
Cancel(a, b) == IF a = 0 /\ b = 0 THEN 1 ELSE Gcd(a, b)

NaN == [s |-> 1, n |-> 0, d |-> 0]

\* the number s * n / d in lowest terms (n, d naturals)
Num(s, n, d) ==
    IF n = 0 /\ d = 0 THEN NaN
    ELSE IF d = 0 THEN [s |-> s, n |-> 1, d |-> 0]
    ELSE IF n = 0 THEN [s |-> s, n |-> 0, d |-> 1]
    ELSE [s |-> s, n |-> n \div Gcd(n, d), d |-> d \div Gcd(n, d)]

\* an integer literal
I(k) == Num(IF k < 0 THEN 0 - 1 ELSE 1, Abs(k), 1)

\* a decimal literal a / b, b > 0
Q(a, b) == Num(IF a < 0 THEN 0 - 1 ELSE 1, Abs(a), b)

IsNaN(x) == x.n = 0 /\ x.d = 0
IsInf(x) == x.n # 0 /\ x.d = 0
IsFinite(x) == x.d # 0
IsZero(x) == x.n = 0 /\ x.d # 0

Neg(x) == IF IsNaN(x) THEN NaN ELSE [x EXCEPT !.s = 0 - x.s]

\* x * y
Mul(x, y) ==
    IF IsNaN(x) \/ IsNaN(y) THEN NaN
    ELSE LET g1 == Cancel(x.n, y.d)
             g2 == Cancel(y.n, x.d)
         IN  Num(x.s * y.s, (x.n \div g1) * (y.n \div g2),
                            (x.d \div g2) * (y.d \div g1))

\* x / y : division by zero yields an infinity or NaN, it does not throw
Div(x, y) ==
    IF IsNaN(x) \/ IsNaN(y) THEN NaN
    ELSE Mul(x, [s |-> y.s, n |-> y.d, d |-> y.n])

\* x + y
Add(x, y) ==
    IF IsNaN(x) \/ IsNaN(y) THEN NaN
    ELSE IF IsInf(x) /\ IsInf(y) THEN (IF x.s = y.s THEN x ELSE NaN)
    ELSE IF IsInf(x) THEN x
    ELSE IF IsInf(y) THEN y
    ELSE LET g == Gcd(x.d, y.d)
             v == x.s * x.n * (y.d \div g) + y.s * y.n * (x.d \div g)
         IN  IF v = 0
             THEN [s |-> IF IsZero(x) /\ IsZero(y) /\ x.s < 0 /\ y.s < 0
                         THEN 0 - 1 ELSE 1,
                   n |-> 0, d |-> 1]
             ELSE Num(IF v < 0 THEN 0 - 1 ELSE 1, Abs(v), (x.d \div g) * y.d)

\* x - y
Sub(x, y) == Add(x, Neg(y))

\* x < y : false when either side is NaN
Lt(x, y) ==
    /\ ~IsNaN(x)
    /\ ~IsNaN(y)
    /\ IF IsInf(x) \/ IsInf(y)
       THEN \/ (IsInf(x) /\ x.s < 0 /\ ~(IsInf(y) /\ y.s < 0))
            \/ (IsInf(y) /\ y.s > 0 /\ ~(IsInf(x) /\ x.s > 0))
       ELSE LET g == Gcd(x.d, y.d)
            IN  x.s * x.n * (y.d \div g) < y.s * y.n * (x.d \div g)

\* x > y
Gt(x, y) == Lt(y, x)

\* x <= y
Le(x, y) == ~IsNaN(x) /\ ~IsNaN(y) /\ ~Lt(y, x)

\* x >= y
Ge(x, y) == Le(y, x)

\* x === y on numbers: NaN equals nothing, the two zeros are equal
Eq(x, y) == Le(x, y) /\ Le(y, x)

\* Math.max(a, b)
MathMax(a, b) ==
    IF IsNaN(a) \/ IsNaN(b) THEN NaN
    ELSE IF Lt(a, b) THEN b
    ELSE IF Lt(b, a) THEN a
    ELSE IF a.s > 0 THEN a ELSE b

\* Math.min(a, b)
MathMin(a, b) ==
    IF IsNaN(a) \/ IsNaN(b) THEN NaN
    ELSE IF Lt(a, b) THEN a
    ELSE IF Lt(b, a) THEN b
    ELSE IF a.s < 0 THEN a ELSE b

\* Math.abs(x)
MathAbs(x) == IF IsNaN(x) THEN NaN ELSE [x EXCEPT !.s = 1]

\* a rectangle { x, y, width, height } of integers as numbers
Rect(x, y, w, h) == [x |-> I(x), y |-> I(y), width |-> I(w), height |-> I(h)]

\* a size { width, height } of integers as numbers
Size(w, h) == [width |-> I(w), height |-> I(h)]

(***************************************************************************)
(* Call outcomes: a function either returns a value or throws an Error     *)
(***************************************************************************)
\* null / undefined argument
Null == [missing |-> TRUE]

IsMissing(v) == "missing" \in DOMAIN v

Returned(v) == [error |-> "none", value |-> v]

Threw(message) == [error |-> message, value |-> Null]

\* no call made yet
Pending == [error |-> "pending", value |-> Null]

HasReturned(r) == r.error = "none"

HasThrown(r) == r.error \notin {"none", "pending"}

(***************************************************************************)
(* server/utils/coordinateTransform.js                                     *)
(***************************************************************************)
\* forwardFit with the centering offsets left at 0
forwardFit_noCentering(containerSize, pdfPageSize) ==
    LET pdfAspectRatio == Div(pdfPageSize.width, pdfPageSize.height)
        containerAspectRatio == Div(containerSize.width, containerSize.height)
    IN  [scaleFactor |-> IF Gt(pdfAspectRatio, containerAspectRatio)
                         THEN Div(containerSize.width, pdfPageSize.width)
                         ELSE Div(containerSize.height, pdfPageSize.height),
         offsetX |-> I(0),
         offsetY |-> I(0)]

\* contain-fit of the page in the container, as the forward transform
\* computes it
forwardFit(containerSize, pdfPageSize) ==
    LET containerWidth == containerSize.width
        containerHeight == containerSize.height
        pdfWidth == pdfPageSize.width
        pdfHeight == pdfPageSize.height
        pdfAspectRatio == Div(pdfWidth, pdfHeight)
        containerAspectRatio == Div(containerWidth, containerHeight)
    IN  IF Gt(pdfAspectRatio, containerAspectRatio)
        THEN LET scaleFactor == Div(containerWidth, pdfWidth)
             IN  [scaleFactor |-> scaleFactor,
                  offsetX |-> I(0),
                  offsetY |-> Div(Sub(containerHeight, Mul(pdfHeight, scaleFactor)), I(2))]
        ELSE LET scaleFactor == Div(containerHeight, pdfHeight)
             IN  [scaleFactor |-> scaleFactor,
                  offsetX |-> Div(Sub(containerWidth, Mul(pdfWidth, scaleFactor)), I(2)),
                  offsetY |-> I(0)]

\* Math.max(0, Math.min(1, v))
clamp01(v) == MathMax(I(0), MathMin(I(1), v))

\* normalizeFrontendCoordinates, "Convert pixel coordinates to PDF points":
\* the four normalized components before clamping, for the fit computed
unclampedWithFit(frontendCoords, pdfPageSize, fit) ==
    [x |-> Div(Div(Sub(frontendCoords.x, fit.offsetX), fit.scaleFactor), pdfPageSize.width),
     y |-> Div(Div(Sub(frontendCoords.y, fit.offsetY), fit.scaleFactor), pdfPageSize.height),
     width |-> Div(Div(frontendCoords.width, fit.scaleFactor), pdfPageSize.width),
     height |-> Div(Div(frontendCoords.height, fit.scaleFactor), pdfPageSize.height)]

\* the four normalized components before clamping
unclampedNormalized(frontendCoords, containerSize, pdfPageSize) ==
    unclampedWithFit(frontendCoords, pdfPageSize, forwardFit(containerSize, pdfPageSize))

\* normalizeFrontendCoordinates, "Clamp to valid range [0, 1]"
clampNormalized(raw) ==
    [x |-> clamp01(raw.x),
     y |-> clamp01(raw.y),
     width |-> clamp01(raw.width),
     height |-> clamp01(raw.height)]

normalizeFrontendCoordinates(frontendCoords, containerSize, pdfPageSize) ==
    IF IsMissing(frontendCoords) \/ IsMissing(containerSize) \/ IsMissing(pdfPageSize)
    THEN Threw("Missing required parameters for coordinate normalization")
    ELSE Returned(clampNormalized(unclampedNormalized(frontendCoords, containerSize,
                                                      pdfPageSize)))

\* normalizedToPDFPoints without the Y-axis flip
normalizedToPDFPoints_noYFlip(normalized, pdfPageSize) ==
    [x |-> Mul(normalized.x, pdfPageSize.width),
     y |-> Mul(normalized.y, pdfPageSize.height),
     width |-> Mul(normalized.width, pdfPageSize.width),
     height |-> Mul(normalized.height, pdfPageSize.height)]

\* normalizedToPDFPoints with the rectangle's height left out of the flip
normalizedToPDFPoints_flipOfTopEdge(normalized, pdfPageSize) ==
    [x |-> Mul(normalized.x, pdfPageSize.width),
     y |-> Sub(pdfPageSize.height, Mul(normalized.y, pdfPageSize.height)),
     width |-> Mul(normalized.width, pdfPageSize.width),
     height |-> Mul(normalized.height, pdfPageSize.height)]

normalizedToPDFPoints(normalized, pdfPageSize) ==
    [x |-> Mul(normalized.x, pdfPageSize.width),
     y |-> Sub(pdfPageSize.height,
               Mul(Add(normalized.y, normalized.height), pdfPageSize.height)),
     width |-> Mul(normalized.width, pdfPageSize.width),
     height |-> Mul(normalized.height, pdfPageSize.height)]

\* transformFrontendToPDF's result: { ...pdfPoints, normalized }
withNormalized(pdfPoints, normalized) ==
    [x |-> pdfPoints.x,
     y |-> pdfPoints.y,
     width |-> pdfPoints.width,
     height |-> pdfPoints.height,
     normalized |-> normalized]

\* transformFrontendToPDF, step 2, on the outcome of step 1: an Error thrown
\* by normalizeFrontendCoordinates propagates
pointsOfNormalized(normalized, pdfPageSize) ==
    IF HasThrown(normalized) THEN normalized
    ELSE Returned(withNormalized(normalizedToPDFPoints(normalized.value, pdfPageSize),
                                 normalized.value))

transformFrontendToPDF(frontendCoords, containerSize, pdfPageSize) ==
    pointsOfNormalized(normalizeFrontendCoordinates(frontendCoords, containerSize, pdfPageSize),
                       pdfPageSize)

\* reverseFit scaling by the axis that does not limit (cover instead of contain)
reverseFit_cover(containerSize, pdfPageSize) ==
    LET pdfAspectRatio == Div(pdfPageSize.width, pdfPageSize.height)
        containerAspectRatio == Div(containerSize.width, containerSize.height)
    IN  IF Gt(pdfAspectRatio, containerAspectRatio)
        THEN [scaleFactor |-> Div(containerSize.height, pdfPageSize.height),
              offsetX |-> Div(Sub(containerSize.width,
                                  Mul(pdfPageSize.width,
                                      Div(containerSize.height, pdfPageSize.height))), I(2)),
              offsetY |-> I(0)]
        ELSE [scaleFactor |-> Div(containerSize.width, pdfPageSize.width),
              offsetX |-> I(0),
              offsetY |-> Div(Sub(containerSize.height,
                                  Mul(pdfPageSize.height,
                                      Div(containerSize.width, pdfPageSize.width))), I(2))]

\* contain-fit of the page in the container, as the reverse transform
\* computes it
reverseFit(containerSize, pdfPageSize) ==
    LET containerWidth == containerSize.width
        containerHeight == containerSize.height
        pdfWidth == pdfPageSize.width
        pdfHeight == pdfPageSize.height
        pdfAspectRatio == Div(pdfWidth, pdfHeight)
        containerAspectRatio == Div(containerWidth, containerHeight)
    IN  IF Gt(pdfAspectRatio, containerAspectRatio)
        THEN LET scaleFactor == Div(containerWidth, pdfWidth)
             IN  [scaleFactor |-> scaleFactor,
                  offsetX |-> I(0),
                  offsetY |-> Div(Sub(containerHeight, Mul(pdfHeight, scaleFactor)), I(2))]
        ELSE LET scaleFactor == Div(containerHeight, pdfHeight)
             IN  [scaleFactor |-> scaleFactor,
                  offsetX |-> Div(Sub(containerWidth, Mul(pdfWidth, scaleFactor)), I(2)),
                  offsetY |-> I(0)]

\* transformPDFToFrontend, "Convert to pixels", without the reversal of the Y axis
pixelsWithFit_noYFlip(pdfCoords, pdfPageSize, fit) ==
    Returned([x |-> Add(Mul(pdfCoords.x, fit.scaleFactor), fit.offsetX),
              y |-> Add(Mul(pdfCoords.y, fit.scaleFactor), fit.offsetY),
              width |-> Mul(pdfCoords.width, fit.scaleFactor),
              height |-> Mul(pdfCoords.height, fit.scaleFactor)])

\* transformPDFToFrontend, from "Convert from PDF points to normalized
\* coordinates" on, for the fit computed
pixelsWithFit(pdfCoords, pdfPageSize, fit) ==
    LET pdfWidth == pdfPageSize.width
        pdfHeight == pdfPageSize.height
        normalizedX == Div(pdfCoords.x, pdfWidth)
        normalizedY == Sub(pdfHeight, Add(pdfCoords.y, pdfCoords.height))
        normalizedY_top == Div(normalizedY, pdfHeight)
    IN  Returned([x |-> Add(Mul(Mul(normalizedX, pdfWidth), fit.scaleFactor), fit.offsetX),
                  y |-> Add(Mul(Mul(normalizedY_top, pdfHeight), fit.scaleFactor), fit.offsetY),
                  width |-> Mul(pdfCoords.width, fit.scaleFactor),
                  height |-> Mul(pdfCoords.height, fit.scaleFactor)])

\* transformPDFToFrontend without the reversal of the Y axis
transformPDFToFrontend_noYFlip(pdfCoords, containerSize, pdfPageSize) ==
    pixelsWithFit_noYFlip(pdfCoords, pdfPageSize, reverseFit(containerSize, pdfPageSize))

transformPDFToFrontend(pdfCoords, containerSize, pdfPageSize) ==
    pixelsWithFit(pdfCoords, pdfPageSize, reverseFit(containerSize, pdfPageSize))

\* isValidNormalizedCoordinate with an empty width accepted
isValidNormalizedCoordinate_emptyWidthAccepted(normalized) ==
    /\ Ge(normalized.x, I(0)) /\ Le(normalized.x, I(1))
    /\ Ge(normalized.y, I(0)) /\ Le(normalized.y, I(1))
    /\ Ge(normalized.width, I(0)) /\ Le(normalized.width, I(1))
    /\ Gt(normalized.height, I(0)) /\ Le(normalized.height, I(1))
    /\ Le(Add(normalized.x, normalized.width), I(1))
    /\ Le(Add(normalized.y, normalized.height), I(1))

isValidNormalizedCoordinate(normalized) ==
    /\ Ge(normalized.x, I(0)) /\ Le(normalized.x, I(1))
    /\ Ge(normalized.y, I(0)) /\ Le(normalized.y, I(1))
    /\ Gt(normalized.width, I(0)) /\ Le(normalized.width, I(1))
    /\ Gt(normalized.height, I(0)) /\ Le(normalized.height, I(1))
    /\ Le(Add(normalized.x, normalized.width), I(1))
    /\ Le(Add(normalized.y, normalized.height), I(1))

\* the { x, y, width, height } part of a transform result
Box(r) == [x |-> r.x, y |-> r.y, width |-> r.width, height |-> r.height]

(***************************************************************************)
(* server/utils/pdfSigner.js                                               *)
(***************************************************************************)
\* calculateFitDimensions with the centering offsets not halved
calculateFitDimensions_offsetNotHalved(imageWidth, imageHeight, boxWidth, boxHeight) ==
    LET imageAspectRatio == Div(imageWidth, imageHeight)
        boxAspectRatio == Div(boxWidth, boxHeight)
        wider == Gt(imageAspectRatio, boxAspectRatio)
        fitWidth == IF wider THEN boxWidth ELSE Mul(boxHeight, imageAspectRatio)
        fitHeight == IF wider THEN Div(boxWidth, imageAspectRatio) ELSE boxHeight
    IN  Returned([width |-> fitWidth,
                  height |-> fitHeight,
                  offsetX |-> Sub(boxWidth, fitWidth),
                  offsetY |-> Sub(boxHeight, fitHeight)])

\* calculateFitDimensions with the aspect-ratio comparison reversed
calculateFitDimensions_cover(imageWidth, imageHeight, boxWidth, boxHeight) ==
    LET imageAspectRatio == Div(imageWidth, imageHeight)
        boxAspectRatio == Div(boxWidth, boxHeight)
        wider == Lt(imageAspectRatio, boxAspectRatio)
        fitWidth == IF wider THEN boxWidth ELSE Mul(boxHeight, imageAspectRatio)
        fitHeight == IF wider THEN Div(boxWidth, imageAspectRatio) ELSE boxHeight
    IN  Returned([width |-> fitWidth,
                  height |-> fitHeight,
                  offsetX |-> Div(Sub(boxWidth, fitWidth), I(2)),
                  offsetY |-> Div(Sub(boxHeight, fitHeight), I(2))])

calculateFitDimensions(imageWidth, imageHeight, boxWidth, boxHeight) ==
    LET imageAspectRatio == Div(imageWidth, imageHeight)
        boxAspectRatio == Div(boxWidth, boxHeight)
        wider == Gt(imageAspectRatio, boxAspectRatio)
        fitWidth == IF wider THEN boxWidth ELSE Mul(boxHeight, imageAspectRatio)
        fitHeight == IF wider THEN Div(boxWidth, imageAspectRatio) ELSE boxHeight
        offsetX == Div(Sub(boxWidth, fitWidth), I(2))
        offsetY == Div(Sub(boxHeight, fitHeight), I(2))
    IN  Returned([width |-> fitWidth,
                  height |-> fitHeight,
                  offsetX |-> offsetX,
                  offsetY |-> offsetY])

\* signPDF, "Draw signature on page": the arguments of page.drawImage for the
\* fit computed
drawImageArgs(signatureData, fit) ==
    IF HasThrown(fit) THEN fit
    ELSE Returned([x |-> Add(signatureData.x, fit.value.offsetX),
                   y |-> Add(signatureData.y, fit.value.offsetY),
                   width |-> fit.value.width,
                   height |-> fit.value.height])

\* signPDF, from the embedded image's dimensions to the page.drawImage call:
\* the arguments drawImage is called with
signPDFDrawImage(signatureData, imageWidth, imageHeight) ==
    drawImageArgs(signatureData,
                  calculateFitDimensions(imageWidth, imageHeight,
                                         signatureData.width, signatureData.height))

\* a buffer pdf-lib can load: a document with its pages
IsPdf(buffer) == "pages" \in DOMAIN buffer

\* crypto SHA-256, hex encoded: equal digests only for equal buffers
computeSHA256(buffer) == [sha256 |-> buffer]

\* the bytes of a base64 image string, data-URI prefix stripped
base64ToBuffer(image) == [format |-> image.format, width |-> image.width, height |-> image.height]

\* signPDF: signatureData.pageIndex || 0
pageIndexOf(signatureData) ==
    IF "pageIndex" \in DOMAIN signatureData THEN signatureData.pageIndex ELSE 0

\* signPDF: signatureData.metadata || {}
metadataOf(signatureData) ==
    IF "metadata" \in DOMAIN signatureData THEN signatureData.metadata ELSE [empty |-> TRUE]

\* signPDF, "Determine image type and embed accordingly": the embed calls the
\* code is prepared to make, in order
embedOrder(signatureData) ==
    IF signatureData.imageType = "png" \/ "png" \in signatureData.image.mentions
    THEN <<"embedPng">>
    ELSE IF signatureData.imageType = "jpeg" \/ "jpeg" \in signatureData.image.mentions
    THEN <<"embedJpeg">>
    ELSE <<"embedPng", "embedJpeg">>

\* pdfDoc.embedPng / pdfDoc.embedJpeg accepts the image bytes
embedAccepts(call, image) ==
    \/ call = "embedPng" /\ image.format = "png"
    \/ call = "embedJpeg" /\ image.format = "jpeg"

\* the embed calls signPDF makes: each one of embedOrder until one succeeds
embedAttempts(signatureData) ==
    IF embedAccepts(embedOrder(signatureData)[1], signatureData.image)
    THEN <<embedOrder(signatureData)[1]>>
    ELSE embedOrder(signatureData)

\* the last embed call made succeeded
embedSucceeds(signatureData) ==
    embedAccepts(embedAttempts(signatureData)[Len(embedAttempts(signatureData))],
                 signatureData.image)

\* the Error pdf-lib raises when an embed call rejects the image bytes
embedRejected(call) == [error |-> "not an image of this encoding", value |-> Null, raisedBy |-> call]

\* the Errors raised by the embed calls signPDF makes, in order
embedRaised(signatureData) ==
    [i \in 1..(IF embedSucceeds(signatureData)
               THEN Len(embedAttempts(signatureData)) - 1
               ELSE Len(embedAttempts(signatureData)))
        |-> embedRejected(embedAttempts(signatureData)[i])]

\* signPDF, catch (error): new Error(`Failed to embed signature image:
\* ${error.message}`), for the Error of the last embed call
embedFailed(signatureData) ==
    [error |-> "Failed to embed signature image", value |-> Null,
     message |-> embedRejected(embedAttempts(signatureData)[Len(embedAttempts(signatureData))]).error]

\* the Error PDFDocument.load raises on a buffer that is not a PDF
loadFailed == Threw("Failed to parse PDF document")

\* the page-index Error with the requested index in place of the page count
InvalidPageIndex_countNotReported(pageIndex, totalPages) ==
    [error |-> "Invalid page index", value |-> Null,
     pageIndex |-> pageIndex, totalPages |-> pageIndex]

\* the Error of an out-of-range page index; its message holds both numbers
InvalidPageIndex(pageIndex, totalPages) ==
    [error |-> "Invalid page index", value |-> Null,
     pageIndex |-> pageIndex, totalPages |-> totalPages]

\* the Errors raised inside signPDF, in the order they are raised
signPDFRaised(originalPDFBuffer, signatureData) ==
    IF ~IsPdf(originalPDFBuffer) THEN <<loadFailed>>
    ELSE IF pageIndexOf(signatureData) < 0
              \/ pageIndexOf(signatureData) >= Len(originalPDFBuffer.pages)
    THEN <<InvalidPageIndex(pageIndexOf(signatureData), Len(originalPDFBuffer.pages))>>
    ELSE IF ~embedSucceeds(signatureData)
    THEN embedRaised(signatureData) \o <<embedFailed(signatureData)>>
    ELSE embedRaised(signatureData)

\* page.drawImage(image, { x, y, width, height })
imageOp(imageBuffer, args) ==
    [op |-> "image", image |-> imageBuffer,
     x |-> args.x, y |-> args.y, width |-> args.width, height |-> args.height]

\* page.drawRectangle around the signature box
rectangleOp(signatureData) ==
    [op |-> "rectangle", image |-> Null,
     x |-> signatureData.x, y |-> signatureData.y,
     width |-> signatureData.width, height |-> signatureData.height]

\* signPDF, "Draw signature on page" and the optional bounding box: what is
\* drawn on the target page
drawnOps(signatureData, imageBuffer, fit, debugSignatureBox) ==
    <<imageOp(imageBuffer, drawImageArgs(signatureData, fit).value)>>
        \o (IF debugSignatureBox = "true" THEN <<rectangleOp(signatureData)>> ELSE <<>>)

\* pdfDoc.save() of the document with ops drawn on page pageIndex
savedWith(buffer, pageIndex, ops) ==
    [buffer EXCEPT !.pages[pageIndex + 1].content = @ \o ops]

\* signPDF, "Audit log"
auditLogOf(originalHash, signedHash, signatureData, pageIndex, page, imageBuffer, fit, now) ==
    [timestamp |-> [iso |-> now],
     originalHash |-> originalHash,
     signedHash |-> signedHash,
     pageIndex |-> pageIndex,
     pageSize |-> page.size,
     signatureBox |-> Box(signatureData),
     imageInfo |-> [originalWidth |-> imageBuffer.width,
                    originalHeight |-> imageBuffer.height,
                    fitWidth |-> fit.width,
                    fitHeight |-> fit.height,
                    offsetX |-> fit.offsetX,
                    offsetY |-> fit.offsetY],
     metadata |-> metadataOf(signatureData)]

\* signPDF with the signed hash taken before the page is drawn on
signPDFResult_hashBeforeDraw(originalPDFBuffer, signatureData, pageIndex, imageBuffer, fit, signedPDFBuffer, now) ==
    Returned([signedPDFBuffer |-> signedPDFBuffer,
              originalHash |-> computeSHA256(originalPDFBuffer),
              signedHash |-> computeSHA256(originalPDFBuffer),
              auditLog |-> auditLogOf(computeSHA256(originalPDFBuffer),
                                      computeSHA256(originalPDFBuffer),
                                      signatureData, pageIndex,
                                      originalPDFBuffer.pages[pageIndex + 1],
                                      imageBuffer, fit, now)])

\* signPDF, from "Compute signed PDF hash" to the return
signPDFResult(originalPDFBuffer, signatureData, pageIndex, imageBuffer, fit, signedPDFBuffer, now) ==
    Returned([signedPDFBuffer |-> signedPDFBuffer,
              originalHash |-> computeSHA256(originalPDFBuffer),
              signedHash |-> computeSHA256(signedPDFBuffer),
              auditLog |-> auditLogOf(computeSHA256(originalPDFBuffer),
                                      computeSHA256(signedPDFBuffer),
                                      signatureData, pageIndex,
                                      originalPDFBuffer.pages[pageIndex + 1],
                                      imageBuffer, fit, now)])

\* signPDF, from the fit to the return, for the image embedded
signPDFEmbedded(originalPDFBuffer, signatureData, pageIndex, imageBuffer, fit, debugSignatureBox, now) ==
    signPDFResult(originalPDFBuffer, signatureData, pageIndex, imageBuffer, fit.value,
                  savedWith(originalPDFBuffer, pageIndex,
                            drawnOps(signatureData, imageBuffer, fit, debugSignatureBox)),
                  now)

\* the calls signPDF makes on the document, in order
signPDFEffects(originalPDFBuffer, signatureData, debugSignatureBox) ==
    IF ~IsPdf(originalPDFBuffer) THEN <<"load">>
    ELSE IF pageIndexOf(signatureData) < 0
              \/ pageIndexOf(signatureData) >= Len(originalPDFBuffer.pages)
    THEN <<"load">>
    ELSE IF ~embedSucceeds(signatureData)
    THEN <<"load">> \o embedAttempts(signatureData)
    ELSE <<"load">> \o embedAttempts(signatureData) \o <<"drawImage">>
            \o (IF debugSignatureBox = "true" THEN <<"drawRectangle">> ELSE <<>>)
            \o <<"save">>

\* signPDF(originalPDFBuffer, signatureData), run with process.env
\* DEBUG_SIGNATURE_BOX = debugSignatureBox at clock time now
signPDF(originalPDFBuffer, signatureData, debugSignatureBox, now) ==
    IF ~IsPdf(originalPDFBuffer) THEN loadFailed
    ELSE IF pageIndexOf(signatureData) < 0
              \/ pageIndexOf(signatureData) >= Len(originalPDFBuffer.pages)
    THEN InvalidPageIndex(pageIndexOf(signatureData), Len(originalPDFBuffer.pages))
    ELSE IF ~embedSucceeds(signatureData)
    THEN embedFailed(signatureData)
    ELSE signPDFEmbedded(originalPDFBuffer, signatureData, pageIndexOf(signatureData),
                         base64ToBuffer(signatureData.image),
                         calculateFitDimensions(I(signatureData.image.width),
                                                I(signatureData.image.height),
                                                signatureData.width, signatureData.height),
                         debugSignatureBox, now)

RECURSIVE signPDFMultipleLoop(_, _, _, _, _)

\* signPDFMultiple's loop body with the audit fragments collected newest first
signPDFMultipleStep_newestFirst(result, rest, auditTrail, debugSignatureBox, now) ==
    IF HasThrown(result) THEN result
    ELSE signPDFMultipleLoop(result.value.signedPDFBuffer, rest,
                             <<result.value.auditLog>> \o auditTrail,
                             debugSignatureBox, now)

\* signPDFMultiple's loop body, on the outcome of signPDF(currentBuffer, sig):
\* an Error thrown by signPDF propagates
signPDFMultipleStep(result, rest, auditTrail, debugSignatureBox, now) ==
    IF HasThrown(result) THEN result
    ELSE signPDFMultipleLoop(result.value.signedPDFBuffer, rest,
                             Append(auditTrail, result.value.auditLog),
                             debugSignatureBox, now)

\* signPDFMultiple: for (const sig of signatures) { ... }
signPDFMultipleLoop(currentBuffer, signatures, auditTrail, debugSignatureBox, now) ==
    IF signatures = <<>>
    THEN Returned([signedPDFBuffer |-> currentBuffer, auditTrail |-> auditTrail])
    ELSE signPDFMultipleStep(signPDF(currentBuffer, Head(signatures), debugSignatureBox, now),
                             Tail(signatures), auditTrail, debugSignatureBox, now)

\* signPDFMultiple: the value returned after the loop
signPDFMultipleReturn(originalPDFBuffer, looped) ==
    IF HasThrown(looped) THEN looped
    ELSE Returned([signedPDFBuffer |-> looped.value.signedPDFBuffer,
                   originalHash |-> computeSHA256(originalPDFBuffer),
                   signedHash |-> computeSHA256(looped.value.signedPDFBuffer),
                   auditTrail |-> looped.value.auditTrail])

signPDFMultiple(originalPDFBuffer, signatures, debugSignatureBox, now) ==
    signPDFMultipleReturn(originalPDFBuffer,
                          signPDFMultipleLoop(originalPDFBuffer, signatures, <<>>,
                                              debugSignatureBox, now))

(***************************************************************************)
(* client: PDFRenderer, PDFEditor                                          *)
(***************************************************************************)
\* PDFRenderer's layout effect: scale and offset of the page in its wrapper
rendererFit(wrapper, pageSize) ==
    LET containerAspectRatio == Div(wrapper.width, wrapper.height)
        pageAspectRatio == Div(pageSize.width, pageSize.height)
    IN  IF Gt(pageAspectRatio, containerAspectRatio)
        THEN LET newScale == Div(wrapper.width, pageSize.width)
             IN  [scale |-> newScale,
                  offset |-> [x |-> I(0),
                              y |-> Div(Sub(wrapper.height, Mul(pageSize.height, newScale)), I(2))]]
        ELSE LET newScale == Div(wrapper.height, pageSize.height)
             IN  [scale |-> newScale,
                  offset |-> [x |-> Div(Sub(wrapper.width, Mul(pageSize.width, newScale)), I(2)),
                              y |-> I(0)]]

\* width and height, in screen pixels, of a newly dropped field
NewFieldWidth == 120
NewFieldHeight == 60

\* PDFRenderer.handleDrop + PDFEditor.handleFieldDropped: the field created by
\* a drop at (x, y) on the canvas
droppedField(id, x, y, currentScale) ==
    [id |-> id,
     x |-> Div(x, currentScale),
     y |-> Div(y, currentScale),
     width |-> Div(I(NewFieldWidth), currentScale),
     height |-> Div(I(NewFieldHeight), currentScale),
     selected |-> TRUE]

\* smallest width and height a resize asks for
MinFieldSize == 30

\* DraggableField.handleMouseDown: setDragStart({ x, y, fieldX, ... })
pressedAt(field, clientX, clientY) ==
    [x |-> clientX, y |-> clientY,
     fieldX |-> field.x, fieldY |-> field.y,
     fieldWidth |-> field.width, fieldHeight |-> field.height]

\* DraggableField.handleMouseMove while dragging: the field passed to onUpdate
draggedField(field, start, deltaX, deltaY, currentScale, pageSize) ==
    [field EXCEPT
       !.x = MathMax(I(0), MathMin(Add(start.fieldX, Div(deltaX, currentScale)),
                                    Sub(pageSize.width, field.width))),
       !.y = MathMax(I(0), MathMin(Add(start.fieldY, Div(deltaY, currentScale)),
                                    Sub(pageSize.height, field.height)))]

\* DraggableField.handleMouseMove while resizing: the field passed to onUpdate
resizedField(field, start, deltaX, deltaY, currentScale, pageSize) ==
    [field EXCEPT
       !.width = MathMin(MathMax(I(MinFieldSize),
                                 Add(start.fieldWidth, Div(deltaX, currentScale))),
                         Sub(pageSize.width, field.x)),
       !.height = MathMin(MathMax(I(MinFieldSize),
                                  Add(start.fieldHeight, Div(deltaY, currentScale))),
                          Sub(pageSize.height, field.y))]

\* DraggableField.handleMouseMove: the field after a move of the pointer to
\* (clientX, clientY)
movedField(field, dragging, start, clientX, clientY, currentScale, pageSize) ==
    IF dragging
    THEN draggedField(field, start, Sub(clientX, start.x), Sub(clientY, start.y),
                      currentScale, pageSize)
    ELSE resizedField(field, start, Sub(clientX, start.x), Sub(clientY, start.y),
                      currentScale, pageSize)

\* PDFEditor.handleFieldUpdated
updatedFields(fieldList, updatedField) ==
    [i \in 1..Len(fieldList) |->
        IF fieldList[i].id = updatedField.id THEN updatedField ELSE fieldList[i]]

\* PDFEditor.handleFieldSelected
selectedFields(fieldList, fieldId) ==
    [i \in 1..Len(fieldList) |->
        [fieldList[i] EXCEPT !.selected = (fieldList[i].id = fieldId)]]

\* DraggableField: where a field is drawn inside the page wrapper
screenRect(field, currentScale) ==
    [x |-> Mul(field.x, currentScale),
     y |-> Mul(field.y, currentScale),
     width |-> Mul(field.width, currentScale),
     height |-> Mul(field.height, currentScale)]

\* SignatureCanvas: size of the captured signature image
SignatureCanvasWidth == 500
SignatureCanvasHeight == 200

\* the field with the given id, Null when there is none (fields.find)
findField(fieldList, id) ==
    IF \E i \in 1..Len(fieldList) : fieldList[i].id = id
    THEN fieldList[CHOOSE i \in 1..Len(fieldList) : fieldList[i].id = id]
    ELSE Null

\* handleSignatureCapture: the field passes the coordinate validation
fieldIsValid(field, pageSize) ==
    /\ ~(Lt(field.x, I(0)) \/ Lt(field.y, I(0))
           \/ Le(field.width, I(0)) \/ Le(field.height, I(0)))
    /\ ~(Gt(Add(field.x, field.width), pageSize.width)
           \/ Gt(Add(field.y, field.height), pageSize.height))

\* SignatureCanvas.handleCapture: canvas.toDataURL('image/png')
canvasImage ==
    [format |-> "png", mentions |-> {"png"},
     width |-> SignatureCanvasWidth, height |-> SignatureCanvasHeight]

\* the sample PDF the editor has loaded: one page of the size reported
samplePdf(pageSize) == [pages |-> <<[size |-> pageSize, content |-> <<>>]>>]

\* handleSignatureCapture: the body of the sign-pdf request
signRequestBody(field, container, pageSize, now) ==
    [pdfId |-> [pdf |-> now],
     pdfBuffer |-> samplePdf(pageSize),
     signature |-> [image |-> canvasImage, imageType |-> "png"],
     coordinates |-> [frontend |-> Box(field), container |-> container, pageIndex |-> 0],
     pageSize |-> pageSize,
     metadata |-> [email |-> "user@example.com", name |-> "User Name",
                   reason |-> "Signature", timestamp |-> [iso |-> now]]]

(***************************************************************************)
(* server/routes/signatureRoutes.js                                        *)
(***************************************************************************)
A4_WIDTH_POINTS == Q(595275591, 1000000)
A4_HEIGHT_POINTS == Q(841889764, 1000000)

NoResponse == [status |-> 0]

\* POST /sign-pdf, catch: the 500 answer, after the steps taken so far
SignFailed(steps) ==
    [response |-> [status |-> 500, error |-> "Failed to sign PDF"],
     burned |-> Null,
     created |-> Null,
     effects |-> steps \o <<"respond">>]

\* POST /sign-pdf, "Get page size (default A4)"
finalPageSize(body) ==
    IF IsMissing(body.pageSize)
    THEN [width |-> A4_WIDTH_POINTS, height |-> A4_HEIGHT_POINTS]
    ELSE body.pageSize

\* POST /sign-pdf: metadata || {}
metadataOfBody(body) ==
    IF "metadata" \in DOMAIN body THEN body.metadata ELSE [empty |-> TRUE]

\* POST /sign-pdf, "Prepare signature data for PDF engine"
signatureDataOf(body, pdfCoordinates) ==
    [image |-> body.signature.image,
     imageType |-> IF "imageType" \in DOMAIN body.signature
                   THEN body.signature.imageType ELSE "png",
     x |-> pdfCoordinates.x,
     y |-> pdfCoordinates.y,
     width |-> pdfCoordinates.width,
     height |-> pdfCoordinates.height,
     pageIndex |-> IF "pageIndex" \in DOMAIN body.coordinates
                   THEN body.coordinates.pageIndex ELSE 0,
     metadata |-> [request |-> metadataOfBody(body),
                   coordinateTransform |-> [frontend |-> body.coordinates.frontend,
                                            normalized |-> pdfCoordinates.normalized,
                                            pdf |-> Box(pdfCoordinates)]]]

\* POST /sign-pdf: metadata?.email || 'unknown', metadata?.name || 'unknown'
metadataField(body, field) ==
    IF "metadata" \in DOMAIN body /\ field \in DOMAIN body.metadata
    THEN body.metadata[field] ELSE "unknown"

\* POST /sign-pdf, "Store audit log": the data passed to auditSchema.create
\* with the hashes stored the other way round
auditDataOf_hashesSwapped(body, pdfCoordinates, signatureData, signResult) ==
    [documentId |-> body.pdfId,
     originalHash |-> signResult.signedHash,
     signedHash |-> signResult.originalHash,
     pageIndex |-> signatureData.pageIndex,
     email |-> metadataField(body, "email"),
     signerName |-> metadataField(body, "name"),
     normalizedCoords |-> pdfCoordinates.normalized,
     pdfCoords |-> Box(pdfCoordinates),
     containerSize |-> body.coordinates.container,
     metadata |-> metadataOfBody(body)]

\* POST /sign-pdf, "Store audit log": the data passed to auditSchema.create
auditDataOf(body, pdfCoordinates, signatureData, signResult) ==
    [documentId |-> body.pdfId,
     originalHash |-> signResult.originalHash,
     signedHash |-> signResult.signedHash,
     pageIndex |-> signatureData.pageIndex,
     email |-> metadataField(body, "email"),
     signerName |-> metadataField(body, "name"),
     normalizedCoords |-> pdfCoordinates.normalized,
     pdfCoords |-> Box(pdfCoordinates),
     containerSize |-> body.coordinates.container,
     metadata |-> metadataOfBody(body)]

\* POST /sign-pdf, from "Store audit log" to the response
signResponse(body, pdfCoordinates, signatureData, signResult, dbSet, insertOk) ==
    IF HasThrown(signResult) THEN SignFailed(<<"signPDF">>)
    ELSE IF dbSet /\ ~insertOk THEN SignFailed(<<"signPDF", "create">>)
    ELSE [response |-> [status |-> 200,
                        success |-> TRUE,
                        documentId |-> body.pdfId,
                        signedPdf |-> signResult.value.signedPDFBuffer,
                        hashes |-> [original |-> signResult.value.originalHash,
                                    signed |-> signResult.value.signedHash],
                        auditLog |-> signResult.value.auditLog],
          burned |-> [box |-> signResult.value.auditLog.signatureBox,
                      image |-> signPDFDrawImage(signatureData,
                                                 I(signatureData.image.width),
                                                 I(signatureData.image.height)).value,
                      normalized |-> pdfCoordinates.normalized],
          created |-> IF dbSet
                      THEN auditDataOf(body, pdfCoordinates, signatureData, signResult.value)
                      ELSE Null,
          effects |-> <<"signPDF">> \o (IF dbSet THEN <<"create">> ELSE <<>>) \o <<"respond">>]

\* POST /sign-pdf, "Sign PDF", for the signature data prepared
signWithData(body, pdfCoordinates, signatureData, dbSet, insertOk, debugSignatureBox, now) ==
    signResponse(body, pdfCoordinates, signatureData,
                 signPDF(body.pdfBuffer, signatureData, debugSignatureBox, now),
                 dbSet, insertOk)

\* POST /sign-pdf, "Prepare signature data for PDF engine" and "Sign PDF", on
\* the outcome of the coordinate transform
signWithCoordinates(body, pdfCoordinates, dbSet, insertOk, debugSignatureBox, now) ==
    IF HasThrown(pdfCoordinates) THEN SignFailed(<<>>)
    ELSE signWithData(body, pdfCoordinates.value,
                      signatureDataOf(body, pdfCoordinates.value),
                      dbSet, insertOk, debugSignatureBox, now)

\* POST /sign-pdf: the response, what signPDF drew, the audit data stored and
\* the steps taken, for a request body; dbSet says req.app.locals.db is set,
\* insertOk that the insertOne of auditSchema.create does not reject
signPdfRoute(body, dbSet, insertOk, debugSignatureBox, now) ==
    IF IsMissing(body.coordinates) THEN SignFailed(<<>>)
    ELSE IF IsMissing(body.pdfId) \/ IsMissing(body.pdfBuffer) \/ IsMissing(body.signature)
    THEN [response |-> [status |-> 400,
                        error |-> "Missing required fields: pdfId, pdfBuffer, signature, coordinates"],
          burned |-> Null,
          created |-> Null,
          effects |-> <<"respond">>]
    ELSE signWithCoordinates(body,
                             transformFrontendToPDF(body.coordinates.frontend,
                                                    body.coordinates.container,
                                                    finalPageSize(body)),
                             dbSet, insertOk, debugSignatureBox, now)

(***************************************************************************)
(* server/models/auditSchema.js                                            *)
(***************************************************************************)
\* AuditSchema.create: the document inserted; its _id is its insertion rank
auditEntry(data, id, now) ==
    [_id |-> id,
     documentId |-> data.documentId,
     originalHash |-> data.originalHash,
     signedHash |-> data.signedHash,
     createdAt |-> now,
     updatedAt |-> now,
     pageIndex |-> data.pageIndex,
     signatureCount |-> 1,
     signer |-> [email |-> data.email, name |-> data.signerName, timestamp |-> now],
     coordinates |-> [normalized |-> data.normalizedCoords,
                      pdf |-> data.pdfCoords,
                      container |-> data.containerSize],
     imageMetadata |-> [originalDimensions |-> Null,
                        fitDimensions |-> Null,
                        mimeType |-> "image/png"],
     integrityStatus |-> "valid",
     verifications |-> <<>>,
     metadata |-> data.metadata]

\* AuditSchema.create: the collection after insertOne
create(collection, data, now) ==
    Append(collection, auditEntry(data, Len(collection) + 1, now))

\* AuditSchema.verifyIntegrity, find({ documentId }): the positions matched
entriesOf(collection, documentId) ==
    {i \in 1..Len(collection) : collection[i].documentId = documentId}

\* AuditSchema.verifyIntegrity, sort({ createdAt: -1 }).limit(1): the positions
\* the query may return.  Entries with equal createdAt tie, and the order of
\* tied documents is not defined by the sort.
findLatest(collection, documentId) ==
    {i \in entriesOf(collection, documentId) :
        \A j \in entriesOf(collection, documentId) :
            collection[j].createdAt <= collection[i].createdAt}

\* recordVerification with the event stored in place of the list
recordVerification_eventReplacesList(entry, isValid, currentHash, now) ==
    [entry EXCEPT !.verifications =
                      <<[verifiedAt |-> now,
                         verifiedBy |-> "system",
                         status |-> IF isValid THEN "valid" ELSE "invalid",
                         hash |-> currentHash]>>,
                  !.integrityStatus = IF isValid THEN "valid" ELSE "tampered",
                  !.updatedAt = now]

\* recordVerification with the integrity status taken from the entry as it
\* was read, then flipped only for an invalid verification
recordVerification_statusNotSetWhenValid(entry, isValid, currentHash, now) ==
    [entry EXCEPT !.verifications =
                      Append(@, [verifiedAt |-> now,
                                 verifiedBy |-> "system",
                                 status |-> IF isValid THEN "valid" ELSE "invalid",
                                 hash |-> currentHash]),
                  !.integrityStatus = IF isValid THEN @ ELSE "tampered",
                  !.updatedAt = now]

\* AuditSchema.verifyIntegrity, updateOne: the entry with the verification
\* pushed and the integrity status set
recordVerification(entry, isValid, currentHash, now) ==
    [entry EXCEPT !.verifications =
                      Append(@, [verifiedAt |-> now,
                                 verifiedBy |-> "system",
                                 status |-> IF isValid THEN "valid" ELSE "invalid",
                                 hash |-> currentHash]),
                  !.integrityStatus = IF isValid THEN "valid" ELSE "tampered",
                  !.updatedAt = now]

\* AuditSchema.verifyIntegrity, for the entry the query returned
verifyLatest(collection, latest, isValid, currentHash, now) ==
    [result |-> [status |-> IF isValid THEN "valid" ELSE "tampered",
                 originalHash |-> collection[latest].originalHash,
                 signedHash |-> collection[latest].signedHash,
                 currentHash |-> currentHash,
                 originalCreated |-> collection[latest].createdAt,
                 verifiedAt |-> now],
     collection |-> [collection EXCEPT
                        ![latest] = recordVerification(@, isValid, currentHash, now)]]

\* AuditSchema.verifyIntegrity: the result and the collection afterwards;
\* latest is the position the query returned, 0 when it returned nothing
verifyIntegrity(collection, documentId, currentHash, latest, now) ==
    IF latest = 0
    THEN [result |-> [status |-> "not_found"], collection |-> collection]
    ELSE verifyLatest(collection, latest,
                      collection[latest].signedHash = currentHash, currentHash, now)

\* the positions verifyIntegrity may be handed by its query
queryResults(collection, documentId) ==
    IF entriesOf(collection, documentId) = {} THEN {0}
    ELSE findLatest(collection, documentId)

\* the collection after a route has run: with the entry created, if any
stored(collection, created, now) ==
    IF created = Null THEN collection ELSE create(collection, created, now)

\* POST /verify-pdf: the response and the collection afterwards
verifyPdfRoute(body, dbSet, collection, latest, now) ==
    IF IsMissing(body.documentId) \/ IsMissing(body.pdfBuffer)
    THEN [response |-> [status |-> 400,
                        error |-> "Missing required fields: documentId, pdfBuffer"],
          collection |-> collection]
    ELSE IF ~dbSet
    THEN [response |-> [status |-> 500, error |-> "Database not available"],
          collection |-> collection]
    ELSE [response |-> [status |-> 200,
                        verification |-> verifyIntegrity(collection, body.documentId,
                                                         computeSHA256(body.pdfBuffer),
                                                         latest, now).result],
          collection |-> verifyIntegrity(collection, body.documentId,
                                         computeSHA256(body.pdfBuffer),
                                         latest, now).collection]

(***************************************************************************)
(* Calls of the coordinate transform engine                                *)
(***************************************************************************)
\* page 595.28 x 841.89 pt, viewport 1200 x 1600 px, rect {150, 200, 100, 50}
ReferenceScenario ==
    [space |-> "frontend",
     rect |-> Rect(150, 200, 100, 50),
     container |-> Size(1200, 1600),
     page |-> [width |-> Q(59528, 100), height |-> Q(84189, 100)]]

\* rectangles and positive container and page sizes
RegularArgs ==
    [space : {"frontend", "pdf"},
     rect : {Rect(x, y, w, h) : x \in (0 - 1)..MaxPos, y \in (0 - 1)..MaxPos,
                                w \in 1..MaxSize, h \in 1..MaxSize},
     container : {Size(w, h) : w \in 1..MaxDim, h \in 1..MaxDim},
     page : {Size(w, h) : w \in 1..MaxDim, h \in 1..MaxDim}]

\* zero and negative container and page dimensions
DegenerateArgs ==
    [space : {"frontend", "pdf"},
     rect : {Rect(1, 1, 1, 1)},
     container : {Size(w, h) : w \in (0 - 1)..1, h \in (0 - 1)..1},
     page : {Size(w, h) : w \in (0 - 1)..1, h \in (0 - 1)..1}]

\* a null / undefined argument
MissingArgs ==
    {[space |-> "frontend", rect |-> Null, container |-> Size(1, 1), page |-> Size(1, 1)],
     [space |-> "frontend", rect |-> Rect(1, 1, 1, 1), container |-> Null, page |-> Size(1, 1)],
     [space |-> "frontend", rect |-> Rect(1, 1, 1, 1), container |-> Size(1, 1), page |-> Null]}

TransformArgs == RegularArgs \cup DegenerateArgs \cup MissingArgs \cup {ReferenceScenario}

\* no call of the transform engine is being followed
IdleTransform ==
    /\ tArgs = Null
    /\ tTrace = <<>>
    /\ tFwd = Pending
    /\ tRev = Pending

\* no call of the fit calculator is being followed
IdleFit ==
    /\ fArgs = Null
    /\ fFit = Pending
    /\ fDraw = Pending

\* no editor is being followed
IdleEditor ==
    /\ editorPdfPageSize = Null
    /\ editorContainerSize = Size(0, 0)
    /\ scale = I(1)
    /\ offset = [x |-> I(0), y |-> I(0)]
    /\ fields = <<>>
    /\ selectedField = 0
    /\ showSignaturePad = FALSE
    /\ signing = FALSE
    /\ request = Null
    /\ response = NoResponse
    /\ burned = Null

\* no call of the signer is being followed
IdleSigner ==
    /\ sArgs = Null
    /\ sFirst = Pending
    /\ sSecond = Pending
    /\ sEffects = <<>>
    /\ sMulti = Pending

\* the clock at its origin, DEBUG_SIGNATURE_BOX not set
IdleAmbient ==
    /\ clock = 0
    /\ envDebugSignatureBox = "unset"

\* the server before startServer: no database, not listening, nothing stored,
\* no request served
IdleServer ==
    /\ db = FALSE
    /\ listening = FALSE
    /\ auditLogs = <<>>
    /\ lastSign = Null
    /\ lastVerify = Null

\* the server after startServer has succeeded: database set, listening,
\* nothing stored yet
ServerUp ==
    /\ db = TRUE
    /\ listening = TRUE
    /\ auditLogs = <<>>
    /\ lastSign = Null
    /\ lastVerify = Null

\* no call of the validity predicate is being followed
IdleValid ==
    /\ vArg = Null
    /\ vResult = Pending

\* no call of AuditSchema.verifyIntegrity is being followed
IdleAudit ==
    /\ verifying = <<>>
    /\ verified = <<>>

\* no field has been pressed: DraggableField's useState(false), useState(false)
\* and useState({ x: 0, y: 0 }) for every field
IdlePointer ==
    /\ isDragging = [id \in 1..MaxFields |-> FALSE]
    /\ isResizing = [id \in 1..MaxFields |-> FALSE]
    /\ dragStart = [id \in 1..MaxFields |-> [x |-> I(0), y |-> I(0)]]
    /\ gestures = 0

InitTransform ==
    /\ tArgs \in TransformArgs
    /\ tTrace = <<>>
    /\ tFwd = Pending
    /\ tRev = Pending
    /\ IdleFit
    /\ IdleEditor
    /\ IdleSigner /\ IdleAmbient /\ IdleServer /\ IdleValid /\ IdleAudit /\ IdlePointer

Called(name) == \E i \in 1..Len(tTrace) : tTrace[i] = name

\* the rectangle the forward transform was (or will be) called with
ForwardArg == IF tTrace # <<>> /\ tTrace[1] = "reverse" THEN tRev.value ELSE tArgs.rect

\* the rectangle the reverse transform was (or will be) called with
ReverseArg == IF tTrace # <<>> /\ tTrace[1] = "forward" THEN Box(tFwd.value) ELSE tArgs.rect

\* transformFrontendToPDF(rect, container, page), on the caller's rectangle or
\* on the rectangle transformPDFToFrontend returned
CallTransformFrontendToPDF ==
    /\ ~Called("forward")
    /\ IF tTrace = <<>> THEN tArgs.space = "frontend" ELSE HasReturned(tRev)
    /\ tFwd' = transformFrontendToPDF(ForwardArg, tArgs.container, tArgs.page)
    /\ tTrace' = Append(tTrace, "forward")
    /\ UNCHANGED <<tArgs, tRev, fVars, eVars, sVars, aVars, dVars, vVars, cVars, pVars>>

\* transformPDFToFrontend(rect, container, page), on the caller's rectangle or
\* on the rectangle transformFrontendToPDF returned
CallTransformPDFToFrontend ==
    /\ ~Called("reverse")
    /\ IF tTrace = <<>> THEN tArgs.space = "pdf" ELSE HasReturned(tFwd)
    /\ tRev' = transformPDFToFrontend(ReverseArg, tArgs.container, tArgs.page)
    /\ tTrace' = Append(tTrace, "reverse")
    /\ UNCHANGED <<tArgs, tFwd, fVars, eVars, sVars, aVars, dVars, vVars, cVars, pVars>>

NextTransform ==
    \/ CallTransformFrontendToPDF
    \/ CallTransformPDFToFrontend

SpecTransform == InitTransform /\ [][NextTransform]_vars

(***************************************************************************)
(* Properties of the coordinate transform engine                           *)
(***************************************************************************)
Positive(size) == Gt(size.width, I(0)) /\ Gt(size.height, I(0))

\* container and page were passed and all four dimensions are positive
PositiveDims ==
    /\ ~IsMissing(tArgs.container) /\ ~IsMissing(tArgs.page)
    /\ Positive(tArgs.container) /\ Positive(tArgs.page)

\* |a - b| <= tol
Within(a, b, tol) == Le(MathAbs(Sub(a, b)), tol)

\* the un-clamped normalized rectangle of the forward call
RawNormalized == unclampedNormalized(ForwardArg, tArgs.container, tArgs.page)

\* the forward call clamped none of the four normalized components
NoClamping ==
    /\ Eq(clamp01(RawNormalized.x), RawNormalized.x)
    /\ Eq(clamp01(RawNormalized.y), RawNormalized.y)
    /\ Eq(clamp01(RawNormalized.width), RawNormalized.width)
    /\ Eq(clamp01(RawNormalized.height), RawNormalized.height)

\* the forward transform was called on a rectangle with positive dimensions
ForwardReturned == Called("forward") /\ ~IsMissing(ForwardArg) /\ PositiveDims /\ HasReturned(tFwd)

\* C1: for any frontend rectangle and positive container and page sizes the
\* normalized rectangle returned by the forward transform satisfies
\* isValidNormalizedCoordinate.
C1_NormalizedAlwaysValid ==
    ForwardReturned => isValidNormalizedCoordinate(tFwd.value.normalized)

\* C2: when the forward transform clamps nothing, the reverse transform of its
\* result is within 1 unit of the original rectangle in x, y, width and height.
C2_RoundTrip ==
    (tTrace = <<"forward", "reverse">> /\ PositiveDims /\ NoClamping /\ HasReturned(tRev))
        => /\ Within(tRev.value.x, tArgs.rect.x, I(1))
           /\ Within(tRev.value.y, tArgs.rect.y, I(1))
           /\ Within(tRev.value.width, tArgs.rect.width, I(1))
           /\ Within(tRev.value.height, tArgs.rect.height, I(1))

\* a round trip without clamping through a page that is scaled and centered
C2_Witness ==
    /\ tTrace = <<"forward", "reverse">> /\ PositiveDims /\ NoClamping /\ HasReturned(tRev)
    /\ ~Eq(forwardFit(tArgs.container, tArgs.page).scaleFactor, I(1))
    /\ Gt(forwardFit(tArgs.container, tArgs.page).offsetY, I(0))
    /\ Gt(tArgs.rect.y, I(0))

C4_ClampToEdge ==
    ForwardReturned
        => /\ Gt(Add(RawNormalized.x, RawNormalized.width), I(1))
                => Eq(Add(tFwd.value.normalized.x, tFwd.value.normalized.width), I(1))
           /\ Gt(Add(RawNormalized.y, RawNormalized.height), I(1))
                => Eq(Add(tFwd.value.normalized.y, tFwd.value.normalized.height), I(1))

\* a rectangle lies inside the page, in document points
InsidePage(r, page) ==
    /\ Ge(r.x, I(0)) /\ Ge(r.y, I(0))
    /\ Le(Add(r.x, r.width), page.width)
    /\ Le(Add(r.y, r.height), page.height)

\* C6: a document-point rectangle inside the page, rendered with the reverse
\* transform and transformed back under the same viewport and page, is
\* returned unchanged, whatever the viewport.
C6_ViewportIndependence ==
    (tTrace = <<"reverse", "forward">> /\ PositiveDims /\ InsidePage(tArgs.rect, tArgs.page)
        /\ HasReturned(tFwd))
        => /\ Eq(tFwd.value.x, tArgs.rect.x)
           /\ Eq(tFwd.value.y, tArgs.rect.y)
           /\ Eq(tFwd.value.width, tArgs.rect.width)
           /\ Eq(tFwd.value.height, tArgs.rect.height)

\* a rectangle inside the page went through a scaled, centered viewport and back
C6_Witness ==
    /\ tTrace = <<"reverse", "forward">> /\ PositiveDims /\ InsidePage(tArgs.rect, tArgs.page)
    /\ HasReturned(tFwd)
    /\ ~Eq(reverseFit(tArgs.container, tArgs.page).scaleFactor, I(1))
    /\ Gt(reverseFit(tArgs.container, tArgs.page).offsetX, I(0))
    /\ Gt(tArgs.rect.y, I(0))

\* some container or page dimension is zero or negative
NonPositiveDims ==
    /\ ~IsMissing(tArgs.rect) /\ ~IsMissing(tArgs.container) /\ ~IsMissing(tArgs.page)
    /\ ~(Positive(tArgs.container) /\ Positive(tArgs.page))

\* C7: with a zero or negative viewport or page dimension the forward
\* transform fails with an error and returns no rectangle.
C7_InvalidGeometryRejected ==
    (tTrace # <<>> /\ tTrace[1] = "forward" /\ NonPositiveDims) => HasThrown(tFwd)

\* C22: normalizedToPDFPoints flips the Y axis: pointY = pageHeight -
\* (y + height) * pageHeight, so the bottom edge is at pageHeight * (1 - y -
\* height) and the top edge pointY + pointHeight at pageHeight * (1 - y); x,
\* width and height scale linearly by the page dimensions.
C22_YAxisFlip ==
    (ForwardReturned /\ tTrace = <<"forward">>)
        => LET normalized == tFwd.value.normalized
               page == tArgs.page
           IN  /\ Eq(tFwd.value.y,
                     Sub(page.height, Mul(Add(normalized.y, normalized.height), page.height)))
               /\ Eq(tFwd.value.y,
                     Mul(page.height, Sub(Sub(I(1), normalized.y), normalized.height)))
               /\ Eq(Add(tFwd.value.y, tFwd.value.height),
                     Mul(page.height, Sub(I(1), normalized.y)))
               /\ Eq(tFwd.value.x, Mul(normalized.x, page.width))
               /\ Eq(tFwd.value.width, Mul(normalized.width, page.width))
               /\ Eq(tFwd.value.height, Mul(normalized.height, page.height))

\* a rectangle below the top edge and above the bottom edge of a page that is
\* not a unit square was converted
C22_Witness ==
    /\ ForwardReturned
    /\ tTrace = <<"forward">>
    /\ Gt(tFwd.value.normalized.y, I(0))
    /\ Lt(Add(tFwd.value.normalized.y, tFwd.value.normalized.height), I(1))
    /\ Gt(tFwd.value.y, I(0))
    /\ ~Eq(tArgs.page.height, I(1))
    /\ ~Eq(tFwd.value.y, Mul(tFwd.value.normalized.y, tArgs.page.height))

\* C23: for any frontend rectangle and positive container and page sizes the
\* document-point rectangle returned by transformFrontendToPDF lies inside
\* the page.
C23_PointsInsidePage ==
    ForwardReturned => InsidePage(Box(tFwd.value), tArgs.page)

\* the contain-fit parameters are the same and are those of a contain fit
SameContainFit(forward, reverse, container, page) ==
    /\ Eq(forward.scaleFactor, reverse.scaleFactor)
    /\ Eq(forward.offsetX, reverse.offsetX)
    /\ Eq(forward.offsetY, reverse.offsetY)
    /\ Eq(reverse.scaleFactor, MathMin(Div(container.width, page.width),
                                       Div(container.height, page.height)))
    /\ Le(Mul(page.width, reverse.scaleFactor), container.width)
    /\ Le(Mul(page.height, reverse.scaleFactor), container.height)
    /\ Ge(reverse.offsetX, I(0)) /\ Ge(reverse.offsetY, I(0))
    /\ Eq(Mul(page.width, reverse.scaleFactor), container.width)
          => /\ IsZero(reverse.offsetX)
             /\ Eq(Mul(reverse.offsetY, I(2)),
                   Sub(container.height, Mul(page.height, reverse.scaleFactor)))
    /\ Eq(Mul(page.height, reverse.scaleFactor), container.height)
          => /\ IsZero(reverse.offsetY)
             /\ Eq(Mul(reverse.offsetX, I(2)),
                   Sub(container.width, Mul(page.width, reverse.scaleFactor)))

\* C24: for positive viewport and page dimensions the forward and the reverse
\* transform compute the same contain-fit parameters: scale is the minimum of
\* the two axis ratios, the scaled page fits in the viewport, the offsets are
\* not negative, the limiting axis has offset 0 and the other is centered.
C24_SameFitBothWays ==
    (Len(tTrace) = 2 /\ ~IsMissing(tArgs.rect) /\ PositiveDims)
        => SameContainFit(forwardFit(tArgs.container, tArgs.page),
                          reverseFit(tArgs.container, tArgs.page),
                          tArgs.container, tArgs.page)

\* both transforms have run for a viewport in which the page is scaled and
\* centered vertically
C24_Witness ==
    /\ Len(tTrace) = 2 /\ PositiveDims /\ HasReturned(tFwd) /\ HasReturned(tRev)
    /\ ~Eq(reverseFit(tArgs.container, tArgs.page).scaleFactor, I(1))
    /\ Gt(reverseFit(tArgs.container, tArgs.page).offsetY, I(0))
    /\ IsZero(forwardFit(tArgs.container, tArgs.page).offsetX)

(***************************************************************************)
(* Calls of the fit calculator                                             *)
(***************************************************************************)
\* image dimensions and placement boxes, zero and negative ones included
FitArgs ==
    [imageWidth : {I(k) : k \in (0 - 1)..MaxFit},
     imageHeight : {I(k) : k \in (0 - 1)..MaxFit},
     box : {Rect(x, y, w, h) : x \in 0..1, y \in 0..1,
                               w \in (0 - 1)..MaxFit, h \in (0 - 1)..MaxFit}]

InitFit ==
    /\ fArgs \in FitArgs
    /\ fFit = Pending
    /\ fDraw = Pending
    /\ IdleTransform
    /\ IdleEditor
    /\ IdleSigner /\ IdleAmbient /\ IdleServer /\ IdleValid /\ IdleAudit /\ IdlePointer

\* calculateFitDimensions(imageWidth, imageHeight, boxWidth, boxHeight)
CallCalculateFitDimensions ==
    /\ fFit = Pending
    /\ fFit' = calculateFitDimensions(fArgs.imageWidth, fArgs.imageHeight,
                                      fArgs.box.width, fArgs.box.height)
    /\ UNCHANGED <<fArgs, fDraw, tVars, eVars, sVars, aVars, dVars, vVars, cVars, pVars>>

\* signPDF fits the embedded image in the box and draws it on the page
SignPDFDrawImage ==
    /\ fFit # Pending
    /\ fDraw = Pending
    /\ fDraw' = signPDFDrawImage(fArgs.box, fArgs.imageWidth, fArgs.imageHeight)
    /\ UNCHANGED <<fArgs, fFit, tVars, eVars, sVars, aVars, dVars, vVars, cVars, pVars>>

NextFit ==
    \/ CallCalculateFitDimensions
    \/ SignPDFDrawImage

SpecFit == InitFit /\ [][NextFit]_vars

(***************************************************************************)
(* Properties of the fit calculator                                        *)
(***************************************************************************)
\* image and box dimensions are all positive
PositiveFitArgs ==
    /\ Gt(fArgs.imageWidth, I(0)) /\ Gt(fArgs.imageHeight, I(0))
    /\ Gt(fArgs.box.width, I(0)) /\ Gt(fArgs.box.height, I(0))

\* C8: for positive inputs the fit has the image's aspect ratio, fits in the
\* box and touches it in width or in height.
C8_ContainFit ==
    (PositiveFitArgs /\ HasReturned(fFit))
        => /\ Eq(Mul(fFit.value.width, fArgs.imageHeight),
                 Mul(fFit.value.height, fArgs.imageWidth))
           /\ Le(fFit.value.width, fArgs.box.width)
           /\ Le(fFit.value.height, fArgs.box.height)
           /\ \/ Eq(fFit.value.width, fArgs.box.width)
              \/ Eq(fFit.value.height, fArgs.box.height)

\* an image wider than its box was fitted by width, leaving room above and below
C8_Witness ==
    /\ PositiveFitArgs /\ HasReturned(fFit)
    /\ Eq(fFit.value.width, fArgs.box.width)
    /\ Lt(fFit.value.height, fArgs.box.height)

\* C9: for positive inputs the offsets are non-negative and center the fit
\* (2 * offset + fit = box on both axes), and the image signPDF draws at
\* (box.x + offsetX, box.y + offsetY) lies inside the placement box.
C9_Centering ==
    /\ (PositiveFitArgs /\ HasReturned(fFit))
          => /\ Ge(fFit.value.offsetX, I(0))
             /\ Ge(fFit.value.offsetY, I(0))
             /\ Eq(Add(Mul(I(2), fFit.value.offsetX), fFit.value.width), fArgs.box.width)
             /\ Eq(Add(Mul(I(2), fFit.value.offsetY), fFit.value.height), fArgs.box.height)
    /\ (PositiveFitArgs /\ HasReturned(fDraw))
          => /\ Ge(fDraw.value.x, fArgs.box.x)
             /\ Ge(fDraw.value.y, fArgs.box.y)
             /\ Le(Add(fDraw.value.x, fDraw.value.width), Add(fArgs.box.x, fArgs.box.width))
             /\ Le(Add(fDraw.value.y, fDraw.value.height), Add(fArgs.box.y, fArgs.box.height))

\* an image taller than its box was drawn centered horizontally, off the box's origin
C9_Witness ==
    /\ PositiveFitArgs /\ HasReturned(fDraw)
    /\ Gt(fFit.value.offsetX, I(0))
    /\ Gt(fDraw.value.x, fArgs.box.x)
    /\ Gt(fArgs.box.x, I(0))

\* C10: with a zero or negative box or image dimension the fit computation
\* fails with an error and returns no FitResult.
C10_InvalidGeometryRejected ==
    (fFit # Pending /\ ~PositiveFitArgs) => HasThrown(fFit)

(***************************************************************************)
(* The editor and the sign-pdf route                                       *)
(***************************************************************************)
\* sizes of the loaded page, in points
PageSizes == {Size(100 * w, 100 * h) : w \in 2..MaxUnits, h \in 2..MaxUnits}

\* sizes of the viewer container, in pixels
ContainerSizes == {Size(100 * w, 100 * h) : w \in 2..MaxUnits, h \in 2..MaxUnits}

\* drop positions relative to the canvas, in pixels
DropPositions == {I(60 * k) : k \in 0..MaxDrop}

\* sizes the page wrapper can be laid out with: the size its style asks for,
\* or the size of the viewer container when the stylesheet makes it fill it
WrapperSizes(pageSize) ==
    {[width |-> Mul(pageSize.width, scale), height |-> Mul(pageSize.height, scale)],
     editorContainerSize}

Init ==
    /\ editorPdfPageSize = Null
    /\ editorContainerSize \in ContainerSizes
    /\ scale = I(1)
    /\ offset = [x |-> I(0), y |-> I(0)]
    /\ fields = <<>>
    /\ selectedField = 0
    /\ showSignaturePad = FALSE
    /\ signing = FALSE
    /\ request = Null
    /\ response = NoResponse
    /\ burned = Null
    /\ IdleTransform
    /\ IdleFit
    /\ IdleSigner /\ IdleAmbient /\ ServerUp /\ IdleValid /\ IdleAudit /\ IdlePointer

\* PDFRenderer has rendered the page: onPDFLoaded, then the layout effect
HandlePDFLoaded(pageSize) ==
    /\ editorPdfPageSize = Null
    /\ editorPdfPageSize' = pageSize
    /\ \E wrapper \in WrapperSizes(pageSize) :
          /\ scale' = rendererFit(wrapper, pageSize).scale
          /\ offset' = rendererFit(wrapper, pageSize).offset
    /\ UNCHANGED <<editorContainerSize, fields, selectedField, showSignaturePad,
                   signing, request, response, burned, tVars, fVars,
                   sVars, aVars, dVars, vVars, cVars, pVars>>

\* window resize: the container is measured again, then the layout effect
HandleResizeEvent(size) ==
    /\ size # editorContainerSize
    /\ editorContainerSize' = size
    /\ IF editorPdfPageSize = Null
       THEN UNCHANGED <<scale, offset>>
       ELSE \E wrapper \in {[width |-> Mul(editorPdfPageSize.width, scale),
                             height |-> Mul(editorPdfPageSize.height, scale)], size} :
               /\ scale' = rendererFit(wrapper, editorPdfPageSize).scale
               /\ offset' = rendererFit(wrapper, editorPdfPageSize).offset
    /\ UNCHANGED <<editorPdfPageSize, fields, selectedField, showSignaturePad,
                   signing, request, response, burned, tVars, fVars,
                   sVars, aVars, dVars, vVars, cVars, pVars>>

\* a new field is dropped on the canvas at (x, y)
HandleDrop(x, y) ==
    /\ Len(fields) < MaxFields
    /\ LET newField == droppedField(Len(fields) + 1, x, y, scale)
       IN  /\ fields' = Append([i \in 1..Len(fields) |-> [fields[i] EXCEPT !.selected = FALSE]],
                               newField)
           /\ selectedField' = newField.id
    /\ UNCHANGED <<editorPdfPageSize, editorContainerSize, scale, offset, showSignaturePad,
                   signing, request, response, burned, tVars, fVars,
                   sVars, aVars, dVars, vVars, cVars, pVars>>

\* the Sign button of the selected field
HandleSignatureClick(fieldId) ==
    /\ findField(fields, fieldId) # Null
    /\ findField(fields, fieldId).selected
    /\ ~showSignaturePad
    /\ selectedField' = fieldId
    /\ showSignaturePad' = TRUE
    /\ UNCHANGED <<editorPdfPageSize, editorContainerSize, scale, offset, fields,
                   signing, request, response, burned, tVars, fVars,
                   sVars, aVars, dVars, vVars, cVars, pVars>>

\* SignatureCanvas: disabled={isSigning} on Clear, Cancel and Sign Document
controlsDisabled(isSigning) == isSigning

\* handleSignatureCapture as it would be if a rejected field left the flag set
captured_rejectionKeepsSigning(isSigning, selected, fieldList, pageSize, containerSize, now) ==
    IF selected = 0 \/ pageSize = Null \/ IsZero(containerSize.width)
    THEN [signing |-> isSigning, request |-> Null]
    ELSE IF findField(fieldList, selected) = Null
    THEN [signing |-> FALSE, request |-> Null]
    ELSE IF ~fieldIsValid(findField(fieldList, selected), pageSize)
    THEN [signing |-> TRUE, request |-> Null]
    ELSE [signing |-> TRUE,
          request |-> signRequestBody(findField(fieldList, selected),
                                      containerSize, pageSize, now)]

\* handleSignatureCapture up to its fetch: the signing flag it leaves behind and
\* the request it sends, Null for none.  Missing data returns before
\* setSigning(true); a field that is not found or is rejected returns after
\* setSigning(false), from the rejection itself or from the finally block.
captured(isSigning, selected, fieldList, pageSize, containerSize, now) ==
    IF selected = 0 \/ pageSize = Null \/ IsZero(containerSize.width)
    THEN [signing |-> isSigning, request |-> Null]
    ELSE IF findField(fieldList, selected) = Null
    THEN [signing |-> FALSE, request |-> Null]
    ELSE IF ~fieldIsValid(findField(fieldList, selected), pageSize)
    THEN [signing |-> FALSE, request |-> Null]
    ELSE [signing |-> TRUE,
          request |-> signRequestBody(findField(fieldList, selected),
                                      containerSize, pageSize, now)]

\* the editor after handleSignatureCapture has yielded
CaptureWith(outcome) ==
    /\ signing' = outcome.signing
    /\ request' = IF outcome.request = Null THEN request ELSE outcome.request

\* Sign Document on the signature pad: validate, then POST /api/sign-pdf
HandleSignatureCapture ==
    /\ showSignaturePad
    /\ ~controlsDisabled(signing)
    /\ CaptureWith(captured(signing, selectedField, fields, editorPdfPageSize,
                            editorContainerSize, clock))
    /\ UNCHANGED <<editorPdfPageSize, editorContainerSize, scale, offset, fields,
                   selectedField, showSignaturePad, response, burned, tVars, fVars,
                   sVars, aVars, dVars, vVars, cVars, pVars>>

\* the outcome of POST /api/sign-pdf reaches the editor and the audit store
ServeWith(served) ==
    /\ response' = served.response
    /\ burned' = served.burned
    /\ auditLogs' = stored(auditLogs, served.created, clock)

\* the server handles POST /api/sign-pdf
ServeSignPdf ==
    /\ request # Null
    /\ response = NoResponse
    /\ listening
    /\ Len(auditLogs) < MaxSigned
    /\ \E insertOk \in BOOLEAN :
          ServeWith(signPdfRoute(request, db, insertOk, envDebugSignatureBox, clock))
    /\ UNCHANGED <<editorPdfPageSize, editorContainerSize, scale, offset, fields,
                   selectedField, showSignaturePad, signing, request, tVars, fVars,
                   sVars, aVars, db, listening, lastSign, lastVerify, vVars, cVars, pVars>>

\* the editor receives the response: close the pad on success, clear signing
ReceiveResponse ==
    /\ response # NoResponse
    /\ showSignaturePad' = IF response.status = 200 THEN FALSE ELSE showSignaturePad
    /\ signing' = FALSE
    /\ request' = Null
    /\ response' = NoResponse
    /\ UNCHANGED <<editorPdfPageSize, editorContainerSize, scale, offset, fields,
                   selectedField, burned, tVars, fVars,
                   sVars, aVars, dVars, vVars, cVars, pVars>>

\* the fetch of the request in flight is rejected: catch, then finally
FetchFailed ==
    /\ request # Null
    /\ response = NoResponse
    /\ signing' = FALSE
    /\ request' = Null
    /\ UNCHANGED <<editorPdfPageSize, editorContainerSize, scale, offset, fields,
                   selectedField, showSignaturePad, response, burned, tVars, fVars,
                   sVars, aVars, dVars, vVars, cVars, pVars>>

\* Cancel on the signature pad
HandleCancel ==
    /\ showSignaturePad
    /\ ~controlsDisabled(signing)
    /\ showSignaturePad' = FALSE
    /\ UNCHANGED <<editorPdfPageSize, editorContainerSize, scale, offset, fields,
                   selectedField, signing, request, response, burned, tVars, fVars,
                   sVars, aVars, dVars, vVars, cVars, pVars>>

Next ==
    \/ \E pageSize \in PageSizes : HandlePDFLoaded(pageSize)
    \/ \E size \in ContainerSizes : HandleResizeEvent(size)
    \/ \E x \in DropPositions, y \in DropPositions : HandleDrop(x, y)
    \/ \E fieldId \in 1..MaxFields : HandleSignatureClick(fieldId)
    \/ HandleSignatureCapture
    \/ HandleCancel
    \/ ServeSignPdf
    \/ FetchFailed
    \/ ReceiveResponse

Spec == Init /\ [][Next]_vars

(***************************************************************************)
(* The editor and its signature pad, for a few page and container sizes    *)
(***************************************************************************)
\* sizes of the loaded page, in points, and of the viewer container, in pixels
SigningSizes == {Size(200, 200), Size(200, 300)}

InitSigning ==
    /\ Init
    /\ editorContainerSize \in SigningSizes

NextSigning ==
    \/ \E pageSize \in SigningSizes : HandlePDFLoaded(pageSize)
    \/ \E size \in SigningSizes : HandleResizeEvent(size)
    \/ \E x \in DropPositions, y \in DropPositions : HandleDrop(x, y)
    \/ \E fieldId \in 1..MaxFields : HandleSignatureClick(fieldId)
    \/ HandleSignatureCapture
    \/ HandleCancel
    \/ ServeSignPdf
    \/ FetchFailed
    \/ ReceiveResponse

SpecSigning == InitSigning /\ [][NextSigning]_vars

\* a sign-pdf request of the editor is in flight
RequestInFlight == request # Null

\* C30: at most one sign-pdf request of the editor is in flight at any time.
\* The signing flag is set exactly while a request is in flight, so it is
\* clear after every way handleSignatureCapture ends (success, server error,
\* field not found, rejected coordinates); while it is set the pad stays open,
\* its controls being disabled, and the request in flight is not joined or
\* replaced by another one.
C30_OneRequestInFlight ==
    /\ [](signing <=> RequestInFlight)
    /\ [](signing => showSignaturePad)
    /\ [][RequestInFlight => request' \in {request, Null}]_vars

\* a request is in flight and its answer has arrived, with the flag still set
C30_Witness ==
    /\ signing
    /\ RequestInFlight
    /\ response # NoResponse
    /\ showSignaturePad

(***************************************************************************)
(* The editor under drops, drags and resizes                               *)
(***************************************************************************)
\* horizontal drop positions that reach the right part of the smallest page
EdgeDropPositions == DropPositions \cup {I(180)}

\* positions the pointer is moved to, relative to where it was pressed
PointerMoves == {I(0 - 60), I(60)}

\* no field is being dragged or resized
PointerIsUp == \A id \in 1..MaxFields : ~isDragging[id] /\ ~isResizing[id]

\* mouse down on a field, or on the resize handle a selected field shows
HandleMouseDown(fieldId, onResizeHandle) ==
    /\ gestures < MaxGestures
    /\ PointerIsUp
    /\ findField(fields, fieldId) # Null
    /\ onResizeHandle => findField(fields, fieldId).selected
    /\ isResizing' = [isResizing EXCEPT ![fieldId] = onResizeHandle]
    /\ isDragging' = [isDragging EXCEPT ![fieldId] = ~onResizeHandle]
    /\ dragStart' = [dragStart EXCEPT
                        ![fieldId] = pressedAt(findField(fields, fieldId), I(0), I(0))]
    /\ fields' = selectedFields(fields, fieldId)
    /\ selectedField' = fieldId
    /\ gestures' = gestures + 1
    /\ UNCHANGED <<editorPdfPageSize, editorContainerSize, scale, offset, showSignaturePad,
                   signing, request, response, burned, tVars, fVars,
                   sVars, aVars, dVars, vVars, cVars>>

\* mouse move on the document while a field is dragged or resized; without a
\* page size the handler throws before it calls onUpdate
HandleMouseMove(fieldId, clientX, clientY) ==
    /\ isDragging[fieldId] \/ isResizing[fieldId]
    /\ findField(fields, fieldId) # Null
    /\ editorPdfPageSize # Null
    /\ fields' = updatedFields(fields,
                     movedField(findField(fields, fieldId), isDragging[fieldId],
                                dragStart[fieldId], clientX, clientY,
                                scale, editorPdfPageSize))
    /\ UNCHANGED <<editorPdfPageSize, editorContainerSize, scale, offset, selectedField,
                   showSignaturePad, signing, request, response, burned, tVars, fVars,
                   sVars, aVars, dVars, vVars, cVars, pVars>>

\* mouse up on the document
HandleMouseUp(fieldId) ==
    /\ isDragging[fieldId] \/ isResizing[fieldId]
    /\ isDragging' = [isDragging EXCEPT ![fieldId] = FALSE]
    /\ isResizing' = [isResizing EXCEPT ![fieldId] = FALSE]
    /\ UNCHANGED <<dragStart, gestures, tVars, fVars, eVars, sVars, aVars, dVars, vVars, cVars>>

NextPointer ==
    \/ \E pageSize \in PageSizes : HandlePDFLoaded(pageSize)
    \/ \E size \in ContainerSizes : HandleResizeEvent(size)
    \/ \E x \in EdgeDropPositions, y \in DropPositions : HandleDrop(x, y)
    \/ \E fieldId \in 1..MaxFields, onResizeHandle \in BOOLEAN :
           HandleMouseDown(fieldId, onResizeHandle)
    \/ \E fieldId \in 1..MaxFields, clientX \in PointerMoves, clientY \in PointerMoves :
           HandleMouseMove(fieldId, clientX, clientY)
    \/ \E fieldId \in 1..MaxFields : HandleMouseUp(fieldId)

SpecPointer == Init /\ [][NextPointer]_vars

\* the field lies within the page and is no smaller than the minimum size
withinPage(field, pageSize) ==
    /\ Ge(field.x, I(0))
    /\ Ge(field.y, I(0))
    /\ Le(Add(field.x, field.width), pageSize.width)
    /\ Le(Add(field.y, field.height), pageSize.height)
    /\ Ge(field.width, I(MinFieldSize))
    /\ Ge(field.height, I(MinFieldSize))

\* C29: after any sequence of drop, drag-move and resize-move events every
\* field lies within the loaded page (x >= 0, y >= 0, x + width <= page width,
\* y + height <= page height) and is at least 30 units wide and high.
C29_FieldsWithinPage ==
    editorPdfPageSize # Null
        => \A i \in 1..Len(fields) : withinPage(fields[i], editorPdfPageSize)

(***************************************************************************)
(* Properties of the placement pipeline                                    *)
(***************************************************************************)
\* the sign-pdf request in flight was answered with success
SignedSuccessfully == request # Null /\ response.status = 200 /\ burned # Null

\* C5: a field shown at page-space (x, y, width, height) is burned into the
\* PDF at the document-point box (x, pageHeight - y - height, width, height).
C5_EndToEndPlacement ==
    SignedSuccessfully
        => LET field == request.coordinates.frontend
               pageHeight == request.pageSize.height
           IN  /\ Eq(burned.box.x, field.x)
               /\ Eq(burned.box.y, Sub(Sub(pageHeight, field.y), field.height))
               /\ Eq(burned.box.width, field.width)
               /\ Eq(burned.box.height, field.height)

(***************************************************************************)
(* Calls of the signer                                                     *)
(***************************************************************************)
\* a blank page of 200 x 300 pt
BlankPage == [size |-> Size(200, 300), content |-> <<>>]

\* the PDF document with n blank pages
BlankDocument(n) == [pages |-> [i \in 1..n |-> BlankPage]]

\* a buffer that is not a PDF
NotAPdf == [bytes |-> "not a pdf"]

\* document buffers passed to the signer
Documents == {BlankDocument(n) : n \in 0..MaxPages} \cup {NotAPdf}

\* base64 image strings: what the bytes decode as, and which of 'png' and
\* 'jpeg' the string contains (as in a data-URI prefix)
Images ==
    [format : {"png", "jpeg", "none"},
     mentions : {{}, {"png"}, {"jpeg"}},
     width : {2},
     height : {1}]

\* signature data with a page index
IndexedSignatureData ==
    [image : Images,
     imageType : {"png", "jpeg", "undefined"},
     x : {I(10)}, y : {I(20)}, width : {I(100)}, height : {I(100)},
     pageIndex : (0 - 1)..MaxPages,
     metadata : {[reason |-> "approval"]}]

\* signature data without pageIndex and metadata
PlainSignatureData ==
    [image : Images,
     imageType : {"png", "jpeg", "undefined"},
     x : {I(10)}, y : {I(20)}, width : {I(100)}, height : {I(100)}]

\* a PNG signature placed on page pageIndex, in the box at (x, y)
Placement(pageIndex, x, y) ==
    [image |-> [format |-> "png", mentions |-> {"png"}, width |-> 2, height |-> 1],
     imageType |-> "png",
     x |-> I(x), y |-> I(y), width |-> I(100), height |-> I(100),
     pageIndex |-> pageIndex,
     metadata |-> [reason |-> "approval"]]

\* the placements signPDFMultiple is called with: two on the first page, one
\* on the last page of the largest document
Placements == {Placement(0, 10, 20), Placement(0, 50, 20), Placement(MaxPages - 1, 10, 20)}

\* sequences of at most n placements
PlacementLists(n) == UNION {[1..k -> Placements] : k \in 0..n}

SignerArgs ==
    [call : {"signPDF"}, buffer : Documents,
     signatureData : IndexedSignatureData \cup PlainSignatureData]
    \cup [call : {"signPDFMultiple"}, buffer : Documents,
          signatures : PlacementLists(MaxPlacements)]

InitSigner ==
    /\ sArgs \in SignerArgs
    /\ sFirst = Pending
    /\ sSecond = Pending
    /\ sEffects = <<>>
    /\ sMulti = Pending
    /\ clock = 0
    /\ envDebugSignatureBox \in {"unset", "true"}
    /\ IdleTransform /\ IdleFit /\ IdleEditor /\ IdleServer /\ IdleValid /\ IdleAudit /\ IdlePointer

\* signPDF(buffer, signatureData)
CallSignPDF ==
    /\ sArgs.call = "signPDF"
    /\ sFirst = Pending
    /\ sFirst' = signPDF(sArgs.buffer, sArgs.signatureData, envDebugSignatureBox, clock)
    /\ sEffects' = signPDFEffects(sArgs.buffer, sArgs.signatureData, envDebugSignatureBox)
    /\ UNCHANGED <<sArgs, sSecond, sMulti, tVars, fVars, eVars, aVars, dVars, vVars, cVars, pVars>>

\* signPDF(buffer, signatureData) once more, with the same arguments
CallSignPDFAgain ==
    /\ sArgs.call = "signPDF"
    /\ sFirst # Pending
    /\ sSecond = Pending
    /\ sSecond' = signPDF(sArgs.buffer, sArgs.signatureData, envDebugSignatureBox, clock)
    /\ UNCHANGED <<sArgs, sFirst, sEffects, sMulti, tVars, fVars, eVars, aVars, dVars, vVars, cVars, pVars>>

\* signPDFMultiple(buffer, signatures)
CallSignPDFMultiple ==
    /\ sArgs.call = "signPDFMultiple"
    /\ sMulti = Pending
    /\ sMulti' = signPDFMultiple(sArgs.buffer, sArgs.signatures, envDebugSignatureBox, clock)
    /\ UNCHANGED <<sArgs, sFirst, sSecond, sEffects, tVars, fVars, eVars, aVars, dVars, vVars, cVars, pVars>>

\* a millisecond passes
Tick ==
    /\ clock < MaxClock
    /\ clock' = clock + 1
    /\ UNCHANGED <<envDebugSignatureBox, tVars, fVars, eVars, sVars, dVars, vVars, cVars, pVars>>

\* the process environment is changed: DEBUG_SIGNATURE_BOX set or removed
SetDebugSignatureBox ==
    /\ envDebugSignatureBox' = IF envDebugSignatureBox = "true" THEN "unset" ELSE "true"
    /\ UNCHANGED <<clock, tVars, fVars, eVars, sVars, dVars, vVars, cVars, pVars>>

NextSigner ==
    \/ CallSignPDF
    \/ CallSignPDFAgain
    \/ CallSignPDFMultiple
    \/ Tick
    \/ SetDebugSignatureBox

SpecSigner == InitSigner /\ [][NextSigner]_vars


(***************************************************************************)
(* Properties of the signer                                                *)
(***************************************************************************)
\* signPDF was called on a document pdf-lib can load
SignedADocument == sArgs.call = "signPDF" /\ sFirst # Pending /\ IsPdf(sArgs.buffer)

\* the page index of the call names a page of the document
PageIndexInRange ==
    /\ pageIndexOf(sArgs.signatureData) >= 0
    /\ pageIndexOf(sArgs.signatureData) < Len(sArgs.buffer.pages)

IsPageIndexError(r) == r.error = "Invalid page index"

\* the first call embedded no image and drew on no page
NothingEmbeddedOrDrawn ==
    \A i \in 1..Len(sEffects) :
        sEffects[i] \notin {"embedPng", "embedJpeg", "drawImage", "drawRectangle", "save"}

\* C11: signPDF fails with the page-index error, reporting the document's page
\* count, for every page index below 0 or not below the page count, before
\* anything is embedded or drawn; for an index in range it does not raise it.
C11_PageIndexChecked ==
    SignedADocument
        => /\ ~PageIndexInRange
                => /\ IsPageIndexError(sFirst)
                   /\ sFirst.totalPages = Len(sArgs.buffer.pages)
                   /\ NothingEmbeddedOrDrawn
           /\ PageIndexInRange => ~IsPageIndexError(sFirst)

\* the index just past the last page of a document with pages was rejected
C11_Witness ==
    /\ SignedADocument
    /\ Len(sArgs.buffer.pages) >= 1
    /\ pageIndexOf(sArgs.signatureData) = Len(sArgs.buffer.pages)
    /\ IsPageIndexError(sFirst)

\* the embed call for an encoding
EmbedCall(encoding) == IF encoding = "png" THEN "embedPng" ELSE "embedJpeg"

\* the supported encoding other than the given one
OtherEncoding(encoding) == IF encoding = "png" THEN "jpeg" ELSE "png"

\* number of times the first call made the given call on the document
Attempts(call) == Cardinality({i \in 1..Len(sEffects) : sEffects[i] = call})

\* signPDF reached the decoding step with a declared encoding the payload
\* does not decode as
DeclaredDecodeFails ==
    /\ SignedADocument
    /\ PageIndexInRange
    /\ sArgs.signatureData.imageType \in {"png", "jpeg"}
    /\ sArgs.signatureData.image.format # sArgs.signatureData.imageType

\* C12: when the payload fails to decode with its declared encoding, signPDF
\* attempts the other encoding exactly once, succeeds if that attempt
\* succeeds and fails only after both attempts have failed.
C12_DecodeFallback ==
    DeclaredDecodeFails
        => /\ Attempts(EmbedCall(OtherEncoding(sArgs.signatureData.imageType))) = 1
           /\ HasReturned(sFirst)
                <=> sArgs.signatureData.image.format
                        = OtherEncoding(sArgs.signatureData.imageType)

\* C13: for every successful signPDF call, originalHash is the digest of the
\* input buffer, signedHash the digest of the returned buffer, and the audit
\* log carries the same two digests.
C13_HashesOfInputAndOutput ==
    (sArgs.call = "signPDF" /\ HasReturned(sFirst))
        => /\ sFirst.value.originalHash = computeSHA256(sArgs.buffer)
           /\ sFirst.value.signedHash = computeSHA256(sFirst.value.signedPDFBuffer)
           /\ sFirst.value.auditLog.originalHash = sFirst.value.originalHash
           /\ sFirst.value.auditLog.signedHash = sFirst.value.signedHash

\* a signature was drawn on the second page: the two digests differ
C13_Witness ==
    /\ sArgs.call = "signPDF" /\ HasReturned(sFirst)
    /\ pageIndexOf(sArgs.signatureData) = 1
    /\ sFirst.value.signedPDFBuffer # sArgs.buffer
    /\ sFirst.value.signedHash # sFirst.value.originalHash

\* C14: signPDFMultiple is a fold over the placements in order: one audit
\* entry per placement, in placement order; the first entry's originalHash is
\* the returned originalHash, the digest of the caller's buffer; each next
\* entry's originalHash is the previous entry's signedHash; the returned
\* signedHash is the last entry's signedHash and the digest of the returned
\* buffer; with no placement the buffer is returned unchanged with equal
\* hashes and an empty trail.
C14_MultipleIsAFold ==
    (sArgs.call = "signPDFMultiple" /\ HasReturned(sMulti))
        => LET result == sMulti.value
               trail == sMulti.value.auditTrail
               n == Len(sArgs.signatures)
           IN  /\ Len(trail) = n
               /\ \A i \in 1..n :
                     /\ trail[i].signatureBox = Box(sArgs.signatures[i])
                     /\ trail[i].pageIndex = sArgs.signatures[i].pageIndex
               /\ result.originalHash = computeSHA256(sArgs.buffer)
               /\ n >= 1 => trail[1].originalHash = result.originalHash
               /\ \A i \in 1..(n - 1) : trail[i + 1].originalHash = trail[i].signedHash
               /\ n >= 1 => result.signedHash = trail[n].signedHash
               /\ result.signedHash = computeSHA256(result.signedPDFBuffer)
               /\ n = 0 => /\ result.signedPDFBuffer = sArgs.buffer
                           /\ result.signedHash = result.originalHash
                           /\ trail = <<>>

\* two different placements were applied one after the other
C14_Witness ==
    /\ sArgs.call = "signPDFMultiple" /\ HasReturned(sMulti)
    /\ Len(sArgs.signatures) = 2
    /\ sArgs.signatures[1] # sArgs.signatures[2]
    /\ sMulti.value.auditTrail[2].originalHash = sMulti.value.auditTrail[1].signedHash
    /\ sMulti.value.signedHash # sMulti.value.auditTrail[1].signedHash

\* both signPDF calls, made with the same arguments, returned
BothReturned == sArgs.call = "signPDF" /\ HasReturned(sFirst) /\ HasReturned(sSecond)

\* C15: two signPDF calls with identical buffer and signature data return
\* identical signed buffers and signed hashes, whatever the time and the
\* process environment.
C15_Determinism ==
    BothReturned
        => /\ sFirst.value.signedPDFBuffer = sSecond.value.signedPDFBuffer
           /\ sFirst.value.signedHash = sSecond.value.signedHash

\* C18: the audit log's timestamp is not generated inside signPDF: two calls
\* with identical inputs made at different times return the same timestamp.
C18_TimestampFromCaller ==
    BothReturned => sFirst.value.auditLog.timestamp = sSecond.value.auditLog.timestamp



\* signPDF reached the decoding step on the first call
ReachedDecoding == SignedADocument /\ PageIndexInRange

\* the embed calls the first call made, in order
EmbedCalls == SelectSeq(sEffects, LAMBDA call : call \in {"embedPng", "embedJpeg"})

\* C25: the decoder signPDF attempts first is determined by the declared
\* imageType alone: 'jpeg' is first decoded as JPEG and 'png' as PNG, whatever
\* the image string contains; only an undeclared type leads to the
\* PNG-then-JPEG order.
C25_DecoderByDeclaredType ==
    ReachedDecoding
        => IF sArgs.signatureData.imageType \in {"png", "jpeg"}
           THEN EmbedCalls[1] = EmbedCall(sArgs.signatureData.imageType)
           ELSE /\ EmbedCalls[1] = "embedPng"
                /\ sArgs.signatureData.image.format # "png"
                      => EmbedCalls = <<"embedPng", "embedJpeg">>

\* C26: any failure raised inside signPDF aborts the call and reaches the
\* caller as the same error, and a failure in a step of signPDFMultiple aborts
\* the whole call with that error, with no buffer, digest or audit trail
\* returned.
C26_NoCatchAndContinue ==
    /\ (sArgs.call = "signPDF" /\ sFirst # Pending
            /\ signPDFRaised(sArgs.buffer, sArgs.signatureData) # <<>>)
          => /\ HasThrown(sFirst)
             /\ sFirst = signPDFRaised(sArgs.buffer, sArgs.signatureData)[1]
    /\ (sArgs.call = "signPDFMultiple" /\ sMulti # Pending)
          => \A k \in 1..Len(sArgs.signatures) :
                (/\ \A j \in 1..(k - 1) : HasReturned(signPDFMultiple(sArgs.buffer, SubSeq(sArgs.signatures, 1, j), envDebugSignatureBox, clock))
                 /\ HasThrown(signPDFMultiple(sArgs.buffer, SubSeq(sArgs.signatures, 1, k), envDebugSignatureBox, clock)))
                    => /\ HasThrown(sMulti)
                       /\ sMulti.value = Null

(***************************************************************************)
(* Requests to the server                                                  *)
(***************************************************************************)
\* a PDF document whose two pages differ in size
TwoPageDocument ==
    [pages |-> <<[size |-> Size(200, 300), content |-> <<>>],
                 [size |-> Size(300, 200), content |-> <<>>]>>]

\* document identifiers sent by clients
DocumentIds == {[pdf |-> 0], [pdf |-> 1]}

\* a PNG data URI, and a string that decodes as no image
PngImage == [format |-> "png", mentions |-> {"png"}, width |-> 2, height |-> 1]
BrokenImage == [format |-> "none", mentions |-> {}, width |-> 2, height |-> 1]

\* the body of a sign-pdf request on TwoPageDocument
SignBody(pdfId, image, pageIndex, pageSize) ==
    [pdfId |-> pdfId,
     pdfBuffer |-> TwoPageDocument,
     signature |-> [image |-> image, imageType |-> "png"],
     coordinates |-> [frontend |-> [x |-> I(20), y |-> I(30),
                                    width |-> I(100), height |-> I(50)],
                      container |-> Size(200, 300),
                      pageIndex |-> pageIndex],
     pageSize |-> pageSize,
     metadata |-> [email |-> "user@example.com", name |-> "User Name"]]

\* a request body with one field left out
without(body, field) == [body EXCEPT ![field] = Null]

\* the fields the sign-pdf route requires
RequiredFields == {"pdfId", "pdfBuffer", "signature", "coordinates"}

\* sign-pdf request bodies, all with the size of the first page as pageSize:
\* a signature on the first page, one on the second page, an image that
\* cannot be decoded, and bodies that lack one required field
SignBodies ==
    {SignBody([pdf |-> 0], PngImage, 0, Size(200, 300)),
     SignBody([pdf |-> 0], PngImage, 1, Size(200, 300)),
     SignBody([pdf |-> 0], BrokenImage, 0, Size(200, 300))}
        \cup {without(SignBody([pdf |-> 0], PngImage, 0, Size(200, 300)), field) :
                 field \in RequiredFields}

\* verify-pdf request bodies: an identifier or none, with the unsigned document
\* or the signed document the server returned last
VerifyBodies(collection) ==
    [documentId : DocumentIds \cup {Null},
     pdfBuffer : {TwoPageDocument}
                    \cup {collection[i].signedHash.sha256 : i \in {Len(collection)} \ {0}}]

InitServer ==
    /\ IdleServer
    /\ clock = 0
    /\ envDebugSignatureBox = "unset"
    /\ IdleTransform /\ IdleFit /\ IdleEditor /\ IdleSigner /\ IdleValid /\ IdleAudit /\ IdlePointer

\* startServer: connect and set app.locals.db, initialize the schema, ping,
\* then listen; on a failure the start is retried later
StartServer(outcome) ==
    /\ ~listening
    /\ db' = (db \/ outcome # "connectFailed")
    /\ listening' = (outcome = "listening")
    /\ UNCHANGED <<auditLogs, lastSign, lastVerify, tVars, fVars, eVars, sVars, aVars, vVars, cVars, pVars>>

\* what a served sign-pdf request leaves behind
SignedWith(body, served) ==
    /\ auditLogs' = stored(auditLogs, served.created, clock)
    /\ lastSign' = [body |-> body,
                    response |-> served.response,
                    effects |-> served.effects,
                    before |-> auditLogs,
                    after |-> stored(auditLogs, served.created, clock)]

\* POST /api/sign-pdf
PostSignPdf(body) ==
    /\ listening
    /\ Len(auditLogs) < MaxAudit
    /\ \E insertOk \in BOOLEAN :
          SignedWith(body, signPdfRoute(body, db, insertOk, envDebugSignatureBox, clock))
    /\ lastVerify' = Null
    /\ UNCHANGED <<db, listening, tVars, fVars, eVars, sVars, aVars, vVars, cVars, pVars>>

\* the number of verifications recorded in the collection
RECURSIVE verificationsIn(_)
verificationsIn(collection) ==
    IF collection = <<>> THEN 0
    ELSE Len(Head(collection).verifications) + verificationsIn(Tail(collection))

\* what a served verify-pdf request leaves behind
VerifiedWith(body, latest, served) ==
    /\ auditLogs' = served.collection
    /\ lastVerify' = [body |-> body,
                      latest |-> latest,
                      response |-> served.response,
                      before |-> auditLogs,
                      after |-> served.collection]

\* POST /api/verify-pdf
PostVerifyPdf(body) ==
    /\ listening
    /\ \E latest \in queryResults(auditLogs, body.documentId) :
          /\ latest # 0 => verificationsIn(auditLogs) < MaxVerifications
          /\ VerifiedWith(body, latest, verifyPdfRoute(body, db, auditLogs, latest, clock))
    /\ lastSign' = Null
    /\ UNCHANGED <<db, listening, tVars, fVars, eVars, sVars, aVars, vVars, cVars, pVars>>

NextServer ==
    \/ \E outcome \in {"connectFailed", "initializeFailed", "listening"} : StartServer(outcome)
    \/ \E body \in SignBodies : PostSignPdf(body)
    \/ \E body \in VerifyBodies(auditLogs) : PostVerifyPdf(body)
    \/ Tick

SpecServer == InitServer /\ [][NextServer]_vars

(***************************************************************************)
(* Properties of the server                                                *)
(***************************************************************************)
\* the last request served was a verify-pdf that reached verifyIntegrity
VerifiedADocument == lastVerify # Null /\ lastVerify.response.status = 200

\* the entry created last among the entries at the positions given
newest(positions) == CHOOSE i \in positions : \A j \in positions : j <= i

\* C16: verifyIntegrity(documentId, h) returns 'valid' exactly when h is the
\* signedHash of the most recently created audit entry for documentId,
\* 'tampered' when that entry exists and its signedHash differs from h, and
\* 'not_found', with the store unchanged, when documentId has no entry.
C16_VerifyAgainstNewest ==
    VerifiedADocument
        => LET h == computeSHA256(lastVerify.body.pdfBuffer)
               positions == entriesOf(lastVerify.before, lastVerify.body.documentId)
               status == lastVerify.response.verification.status
           IN  IF positions = {}
               THEN status = "not_found" /\ lastVerify.after = lastVerify.before
               ELSE status = IF lastVerify.before[newest(positions)].signedHash = h
                             THEN "valid" ELSE "tampered"

\* the last request served was a sign-pdf answered with success: true
SignSucceeded == lastSign # Null /\ lastSign.response.status = 200

\* the positions of a step in the steps a route has taken
stepsNamed(effects, name) == {i \in 1..Len(effects) : effects[i] = name}

\* C17: a sign-pdf request answered with success has exactly one audit entry
\* created for it, with its documentId, originalHash and signedHash, written
\* before the response is sent; a request that is not answered with success
\* creates no entry.
C17_AuditCompleteness ==
    lastSign # Null
        => IF lastSign.response.status = 200
           THEN /\ Len(lastSign.after) = Len(lastSign.before) + 1
                /\ SubSeq(lastSign.after, 1, Len(lastSign.before)) = lastSign.before
                /\ LET entry == lastSign.after[Len(lastSign.after)]
                   IN  /\ entry.documentId = lastSign.body.pdfId
                       /\ entry.originalHash = lastSign.response.hashes.original
                       /\ entry.originalHash = computeSHA256(lastSign.body.pdfBuffer)
                       /\ entry.signedHash = lastSign.response.hashes.signed
                       /\ entry.signedHash = computeSHA256(lastSign.response.signedPdf)
                /\ Cardinality(stepsNamed(lastSign.effects, "create")) = 1
                /\ \A c \in stepsNamed(lastSign.effects, "create") :
                      \A r \in stepsNamed(lastSign.effects, "respond") : c < r
           ELSE lastSign.after = lastSign.before

\* a second signature on a document was answered with success and stored
\* after the first one
C17_Witness ==
    /\ SignSucceeded
    /\ Len(lastSign.before) = 1
    /\ Len(auditLogs) = 2
    /\ auditLogs[2].documentId = lastSign.body.pdfId
    /\ auditLogs[2].signedHash # auditLogs[1].signedHash

\* the page of the submitted document that was drawn on
targetPage(signed) == signed.body.pdfBuffer.pages[signed.response.auditLog.pageIndex + 1]

\* C19: the box passed to signPDF is the placement converted with the
\* dimensions of the target page of the submitted document.
C19_TargetPageDimensions ==
    SignSucceeded
        => LET body == lastSign.body
               expected == transformFrontendToPDF(body.coordinates.frontend,
                                                  body.coordinates.container,
                                                  targetPage(lastSign).size).value
               box == lastSign.response.auditLog.signatureBox
           IN  /\ Eq(box.x, expected.x)
               /\ Eq(box.y, expected.y)
               /\ Eq(box.width, expected.width)
               /\ Eq(box.height, expected.height)

\* the last request served was a sign-pdf that lacks one of the required fields
LacksARequiredField ==
    /\ lastSign # Null
    /\ \E field \in RequiredFields : IsMissing(lastSign.body[field])

\* C27: a sign-pdf request that lacks one of pdfId, pdfBuffer, signature or
\* coordinates is answered with 400 and the missing-fields error, without
\* parsing the PDF and without writing an audit entry.
C27_MissingFieldsRejected ==
    LacksARequiredField
        => /\ lastSign.response.status = 400
           /\ lastSign.response.error
                 = "Missing required fields: pdfId, pdfBuffer, signature, coordinates"
           /\ stepsNamed(lastSign.effects, "signPDF") = {}
           /\ stepsNamed(lastSign.effects, "create") = {}
           /\ lastSign.after = lastSign.before

(***************************************************************************)
(* Calls of the validity predicate                                         *)
(***************************************************************************)
\* components of the rectangles checked: halves around the unit interval,
\* NaN (also what a missing component compares as) and Infinity
Components == {Q(k, 2) : k \in (0 - 1)..MaxHalves} \cup {NaN, Div(I(1), I(0))}

NormalizedRects == [x : Components, y : Components, width : Components, height : Components]

InitValid ==
    /\ vArg \in NormalizedRects
    /\ vResult = Pending
    /\ IdleTransform /\ IdleFit /\ IdleEditor /\ IdleSigner /\ IdleAmbient /\ IdleServer
    /\ IdleAudit /\ IdlePointer

\* isValidNormalizedCoordinate(vArg)
CallIsValid ==
    /\ vResult = Pending
    /\ vResult' = Returned([bool |-> isValidNormalizedCoordinate(vArg)])
    /\ UNCHANGED <<vArg, tVars, fVars, eVars, sVars, aVars, dVars, cVars, pVars>>

NextValid == CallIsValid

SpecValid == InitValid /\ [][NextValid]_vars

(***************************************************************************)
(* Properties of the validity predicate                                    *)
(***************************************************************************)
\* the signed numerator of a finite number
signedNumerator(v) == v.s * v.n

\* 0 <= v <= 1 for a finite v
inUnitInterval(v) == 0 <= signedNumerator(v) /\ signedNumerator(v) <= v.d

\* 0 < v <= 1 for a finite v
inHalfOpenUnitInterval(v) == 0 < signedNumerator(v) /\ signedNumerator(v) <= v.d

\* v + w <= 1 for finite v and w
sumAtMostOne(v, w) == signedNumerator(v) * w.d + signedNumerator(w) * v.d <= v.d * w.d

\* C20: isValidNormalizedCoordinate(r) is true exactly when 0 <= x <= 1,
\* 0 <= y <= 1, 0 < width <= 1, 0 < height <= 1, x + width <= 1 and
\* y + height <= 1.
C20_ValidityPredicate ==
    HasReturned(vResult)
        => (vResult.value.bool
               <=> /\ IsFinite(vArg.x) /\ IsFinite(vArg.y)
                   /\ IsFinite(vArg.width) /\ IsFinite(vArg.height)
                   /\ inUnitInterval(vArg.x)
                   /\ inUnitInterval(vArg.y)
                   /\ inHalfOpenUnitInterval(vArg.width)
                   /\ inHalfOpenUnitInterval(vArg.height)
                   /\ sumAtMostOne(vArg.x, vArg.width)
                   /\ sumAtMostOne(vArg.y, vArg.height))

\* a rectangle that ends exactly on the right and bottom edges is valid
C20_Witness ==
    /\ HasReturned(vResult)
    /\ vResult.value.bool
    /\ vArg.x = Q(1, 2) /\ vArg.width = Q(1, 2)
    /\ vArg.y = I(0) /\ vArg.height = I(1)

(***************************************************************************)
(* Concurrent calls of the audit schema                                    *)
(***************************************************************************)
\* digests of the two signed documents and of an altered one
AuditHashes == {[sha256 |-> "signed A"], [sha256 |-> "signed B"], [sha256 |-> "altered"]}

\* data passed to AuditSchema.create, all for one document
AuditData ==
    [documentId : {[pdf |-> 0]},
     originalHash : {[sha256 |-> "original"]},
     signedHash : {[sha256 |-> "signed A"], [sha256 |-> "signed B"]},
     pageIndex : {0},
     email : {"user@example.com"},
     signerName : {"User Name"},
     normalizedCoords : {Null},
     pdfCoords : {Null},
     containerSize : {Null},
     metadata : {[empty |-> TRUE]}]

\* the number of calls of the audit schema followed so far
auditCalls == Len(auditLogs) + Len(verifying) + Len(verified)

\* a sequence without its k-th element
removeAt(seq, k) == SubSeq(seq, 1, k - 1) \o SubSeq(seq, k + 1, Len(seq))

InitAudit ==
    /\ db = TRUE
    /\ listening = FALSE
    /\ auditLogs = <<>>
    /\ lastSign = Null
    /\ lastVerify = Null
    /\ verifying = <<>>
    /\ verified = <<>>
    /\ IdleAmbient
    /\ IdleTransform /\ IdleFit /\ IdleEditor /\ IdleSigner /\ IdleValid /\ IdlePointer

\* auditSchema.create(data)
Create(data) ==
    /\ auditCalls < MaxCalls
    /\ auditLogs' = create(auditLogs, data, clock)
    /\ UNCHANGED <<db, listening, lastSign, lastVerify, cVars, tVars, fVars, eVars, sVars,
                   aVars, vVars, pVars>>

\* auditSchema.verifyIntegrity(documentId, currentHash) up to the answer of
\* its query: with no entry it returns 'not_found', otherwise it goes on with
\* the entry the query returned
VerifyFind(documentId, currentHash) ==
    /\ auditCalls < MaxCalls
    /\ \E latest \in queryResults(auditLogs, documentId) :
          IF latest = 0
          THEN /\ verified' = Append(verified,
                                     [target |-> 0,
                                      latestEntry |-> Null,
                                      result |-> verifyIntegrity(auditLogs, documentId,
                                                                 currentHash, 0, clock).result])
               /\ UNCHANGED verifying
          ELSE /\ verifying' = Append(verifying,
                                      [documentId |-> documentId,
                                       currentHash |-> currentHash,
                                       latestEntry |-> auditLogs[latest]])
               /\ UNCHANGED verified
    /\ UNCHANGED <<dVars, tVars, fVars, eVars, sVars, aVars, vVars, pVars>>

\* what the updateOne of a verifyIntegrity call and its return leave behind
VerifiedWithUpdate(call, updated) ==
    /\ auditLogs' = updated.collection
    /\ verified' = Append(verified, [target |-> call.latestEntry._id,
                                     latestEntry |-> call.latestEntry,
                                     result |-> updated.result])

\* auditSchema.verifyIntegrity from its updateOne to its return, for the k-th
\* call in flight: the update is applied to the collection as it is now
VerifyUpdate(k) ==
    /\ k \in 1..Len(verifying)
    /\ VerifiedWithUpdate(verifying[k],
                          verifyLatest(auditLogs, verifying[k].latestEntry._id,
                                       verifying[k].latestEntry.signedHash
                                           = verifying[k].currentHash,
                                       verifying[k].currentHash, clock))
    /\ verifying' = removeAt(verifying, k)
    /\ UNCHANGED <<db, listening, lastSign, lastVerify, tVars, fVars, eVars, sVars, aVars, vVars, pVars>>

NextAudit ==
    \/ \E data \in AuditData : Create(data)
    \/ \E currentHash \in AuditHashes : VerifyFind([pdf |-> 0], currentHash)
    \/ \E k \in 1..MaxCalls : VerifyUpdate(k)
    \/ Tick

SpecAudit == InitAudit /\ [][NextAudit]_vars

(***************************************************************************)
(* Properties of the audit schema under concurrent calls                   *)
(***************************************************************************)
\* the verifyIntegrity calls that have returned and targeted the entry, in
\* the order they returned
completedFor(id) == SelectSeq(verified, LAMBDA call : call.target = id)

\* the verification event a returned verifyIntegrity call stands for
eventOf(call) ==
    [verifiedAt |-> call.result.verifiedAt,
     verifiedBy |-> "system",
     status |-> IF call.result.status = "valid" THEN "valid" ELSE "invalid",
     hash |-> call.result.currentHash]

\* C21: the verification events of an audit entry are append-only: every
\* verifyIntegrity call that found the entry and returned has appended one
\* event (time, status, compared hash), no event was removed or altered, and
\* the entry has as many events as verifications that targeted it.
C21_VerificationsAppendOnly ==
    \A i \in 1..Len(auditLogs) :
        /\ auditLogs[i]._id = i
        /\ Len(auditLogs[i].verifications) = Len(completedFor(i))
        /\ \A k \in 1..Len(auditLogs[i].verifications) :
              auditLogs[i].verifications[k] = eventOf(completedFor(i)[k])

\* two verifications of one entry have returned, with different outcomes
C21_Witness ==
    /\ Len(auditLogs) = 1
    /\ Len(auditLogs[1].verifications) = 2
    /\ auditLogs[1].verifications[1].status # auditLogs[1].verifications[2].status
    /\ Len(completedFor(1)) = 2

\* C28: under any interleaving of create and verifyIntegrity calls an entry's
\* integrityStatus is 'valid' when it has no verification event, and
\* otherwise agrees with its last event: 'valid' for a 'valid' event,
\* 'tampered' for an 'invalid' one.
C28_StatusAgreesWithLastEvent ==
    \A i \in 1..Len(auditLogs) :
        LET events == auditLogs[i].verifications
        IN  IF events = <<>>
            THEN auditLogs[i].integrityStatus = "valid"
            ELSE auditLogs[i].integrityStatus
                    = (IF events[Len(events)].status = "valid" THEN "valid" ELSE "tampered")

\* two verifications of one entry ran concurrently, both having read the
\* entry before either wrote, the invalid one writing first
C28_Witness ==
    /\ Len(verified) = 2
    /\ verified[1].target = 1 /\ verified[2].target = 1
    /\ verified[1].latestEntry.verifications = <<>>
    /\ verified[2].latestEntry.verifications = <<>>
    /\ verified[1].result.status = "tampered"
    /\ verified[2].result.status = "valid"
    /\ auditLogs[1].integrityStatus = "valid"

====
